---- MODULE Spec2Model ----
(***************************************************************************)
(* Model of the trie router of buildwithgo/amaro (routers.TrieRouter) and  *)
(* of the request context's parameter sink (amaro.Context.Params).         *)
(*                                                                         *)
(* Strings are sequences of one-character strings, so that trimming,       *)
(* splitting and concatenation are computed as the Go code computes them.  *)
(* Pointers to nodes are indices into the sequence `nodes` (0 is nil).     *)
(***************************************************************************)
EXTENDS Naturals, Integers, Sequences, FiniteSets, TLC

VARIABLES
    nodes,              \* the heap of trie nodes: nodes[i] is the node at address i
    root,               \* TrieRouter.root: method -> address of the root node (0: no entry)
    globalMiddlewares,  \* TrieRouter.globalMiddlewares
    history,            \* the Add calls made so far, each with its outcome
    pc,                 \* position of the caller of Find: "idle", "loop" or "done"
    fMethod,            \* Find's argument method
    fPath,              \* Find's argument path
    n,                  \* Find's local n (address of the current node)
    searchPath,         \* Find's local searchPath
    hasCtx,             \* whether Find's argument ctx is non-nil
    Params,             \* ctx.Params, the parameter sink
    result,             \* what Find returned: [route |-> address or 0, err |-> message]
    iters,              \* the iterations of Find's loop the call has made so far
    run,                \* one invocation of a stored handler: the chain, the calls
                        \* that are open, the events so far and the value returned
    sink,               \* a Context's Params slice: its entries and its capacity
    sinkLog,            \* the AddParam calls on that Context since its last Reset
    calls,              \* the calls of Find that run side by side, each with its own
                        \* Context: calls[f] is the position and the locals of caller f
    appMws,             \* App.middlewares
    appHandler,         \* App.handler: the composed handler, NilHandler before setup
    onceDone,           \* App.once: whether its function has run
    composed,           \* the lists of middlewares setup has composed, one per composition
    pool,               \* App.pool: the Contexts that were put back
    ctxs,               \* the Contexts: Params, the request Reset bound, and the holder
    reqs,               \* the calls of ServeHTTP: position, request, Context, events
    gos,                \* the goroutine the Timeout middleware started for each call
    crashed,            \* the process died of a panic no deferred function recovered
    groups              \* the Groups made so far: prefix and middlewares

vars == <<nodes, root, globalMiddlewares, history, pc, fMethod, fPath, n, searchPath,
          hasCtx, Params, result, iters, run, sink, sinkLog, calls,
          appMws, appHandler, onceDone, composed, pool, ctxs, reqs, gos, crashed,
          groups>>

\* the state of the router, of one call of Find, and of one handler invocation
routerVars == <<nodes, root, globalMiddlewares, history>>

findVars == <<pc, fMethod, fPath, n, searchPath, hasCtx, Params, result, iters>>

chainVars == <<run>>

sinkVars == <<sink, sinkLog>>

parVars == <<calls>>

appVars == <<appMws, appHandler, onceDone, composed, pool, ctxs, reqs, gos, crashed>>

groupVars == <<groups>>

\* what the router's own operations never touch
beyondRouter == <<chainVars, sinkVars, parVars, appVars, groupVars>>

(***************************************************************************)
(* Bounds of the model                                                     *)
(***************************************************************************)
MaxAdds == 2

MaxPathLen == 4

\* the longest list of middlewares a route is registered with
MaxMws == 2

\* the most entries a sink is given before it is reset
MaxParams == 11

\* the most middlewares App.Use adds to the one New installs
MaxUses == 2

\* the longest segment of the segment rules' specification
MaxSegLen == 3

\* the most Groups that are made
MaxGroups == 2

(***************************************************************************)
(* Strings                                                                 *)
(***************************************************************************)
Slash == "/"

EmptyString == <<>>

\* strings.IndexByte: 0-based index of the first c in s, -1 when there is none
IndexByte(s, c) ==
    IF \E i \in 1..Len(s) : s[i] = c
    THEN (CHOOSE i \in 1..Len(s) : s[i] = c /\ \A j \in 1..(i - 1) : s[j] # c) - 1
    ELSE -1

RECURSIVE TrimLeft(_, _)
TrimLeft(s, c) ==
    IF Len(s) > 0 /\ s[1] = c THEN TrimLeft(Tail(s), c) ELSE s

RECURSIVE TrimRight(_, _)
TrimRight(s, c) ==
    IF Len(s) > 0 /\ s[Len(s)] = c THEN TrimRight(SubSeq(s, 1, Len(s) - 1), c) ELSE s

\* strings.Trim(s, "/")
Trim(s, c) == TrimRight(TrimLeft(s, c), c)

\* strings.Split(s, "/"): every part between separators, the empty ones included
RECURSIVE Split(_, _)
Split(s, c) ==
    LET i == IndexByte(s, c)
    IN  IF i < 0 THEN <<s>>
        ELSE <<SubSeq(s, 1, i)>> \o Split(SubSeq(s, i + 2, Len(s)), c)

HasPrefix(s, p) == Len(s) >= Len(p) /\ SubSeq(s, 1, Len(p)) = p

HasSuffix(s, p) == Len(s) >= Len(p) /\ SubSeq(s, Len(s) - Len(p) + 1, Len(s)) = p

(***************************************************************************)
(* The router's configuration (DefaultTrieRouterConfig)                    *)
(***************************************************************************)
ParamStart == ":"

ParamPrefix == <<"{">>

ParamSuffix == <<"}">>

WildcardStart == "*"

(***************************************************************************)
(* Trie nodes                                                              *)
(***************************************************************************)
NilNode == 0

NilHandler == <<>>

EmptyMap == [k \in {} |-> 0]

\* &node{children: make(map[string]*node)}
NewNode ==
    [children |-> EmptyMap,
     paramNode |-> NilNode, paramName |-> EmptyString,
     catchAllNode |-> NilNode, catchAllName |-> EmptyString,
     Method |-> "", Path |-> EmptyString, Handler |-> NilHandler, Middlewares |-> <<>>]

MapPut(m, k, v) == [x \in (DOMAIN m) \cup {k} |-> IF x = k THEN v ELSE m[x]]

\* amaro.Compile: folds the middlewares from last to first around the handler.
\* A handler is the chain of the names it runs, outermost first.
RECURSIVE CompileFirstToLast(_, _)
\* Compile that folds the middlewares from first to last
CompileFirstToLast(handler, middlewares) ==
    IF Len(middlewares) = 0 THEN handler
    ELSE CompileFirstToLast(<<middlewares[1]>> \o handler,
                            SubSeq(middlewares, 2, Len(middlewares)))

RECURSIVE Compile(_, _)
Compile(handler, middlewares) ==
    IF Len(middlewares) = 0 THEN handler
    ELSE Compile(<<middlewares[Len(middlewares)]>> \o handler,
                 SubSeq(middlewares, 1, Len(middlewares) - 1))

(***************************************************************************)
(* Errors: nil is the empty tuple, an error is its message and arguments   *)
(***************************************************************************)
NilErr == <<>>

ParamConflictErr(existing, requested) == <<"param name conflict", existing, requested>>

WildcardConflictErr(existing, requested) == <<"wildcard name conflict", existing, requested>>

MethodNotFoundErr == <<"method not found">>

RouteNotFoundErr == <<"route not found">>

(***************************************************************************)
(* TrieRouter.Add                                                          *)
(***************************************************************************)
\* the ":name" rule: the segment starts with the configured ParamStart byte
IsColonParam(part) == ParamStart # "" /\ Len(part) > 0 /\ part[1] = ParamStart

\* the "{name}" rule asking for a name of at least one character
IsBracketParamLong(part) ==
    /\ ~IsColonParam(part)
    /\ Len(part) > 2
    /\ HasPrefix(part, ParamPrefix) /\ HasSuffix(part, ParamSuffix)

\* the "{name}" rule, tried only when the ":name" rule did not apply
IsBracketParam(part) ==
    /\ ~IsColonParam(part)
    /\ ParamPrefix # EmptyString /\ ParamSuffix # EmptyString
    /\ HasPrefix(part, ParamPrefix) /\ HasSuffix(part, ParamSuffix)

IsParam(part) == IsColonParam(part) \/ IsBracketParam(part)

ParamNameOf(part) ==
    IF IsColonParam(part) THEN Tail(part)
    ELSE SubSeq(part, Len(ParamPrefix) + 1, Len(part) - Len(ParamSuffix))

\* the wildcard rule, tried only when the segment is no parameter
IsWildcard(part) == ~IsParam(part) /\ part[1] = WildcardStart

WildcardNameOf(part) == Tail(part)

\* AddParamPart that renames an existing parameter child instead of failing
AddParamPartRename(ns, cur, paramName) ==
    LET ns1 == IF ns[cur].paramNode = NilNode
               THEN Append([ns EXCEPT ![cur].paramNode = Len(ns) + 1,
                                      ![cur].paramName = paramName], NewNode)
               ELSE [ns EXCEPT ![cur].paramName = paramName]
    IN  [nodes |-> ns1, n |-> ns1[cur].paramNode, err |-> NilErr]

\* AddParamPart that takes the requested name before it reports the conflict
AddParamPartOverwrite(ns, cur, paramName) ==
    LET ns1 == IF ns[cur].paramNode = NilNode
               THEN Append([ns EXCEPT ![cur].paramNode = Len(ns) + 1,
                                      ![cur].paramName = paramName], NewNode)
               ELSE ns
    IN  IF ns1[cur].paramName # paramName
        THEN [nodes |-> [ns1 EXCEPT ![cur].paramName = paramName], n |-> cur,
              err |-> ParamConflictErr(ns1[cur].paramName, paramName)]
        ELSE [nodes |-> ns1, n |-> ns1[cur].paramNode, err |-> NilErr]

\* the parameter branch of the loop body: create the child on first use, then
\* compare the names
AddParamPart(ns, cur, paramName) ==
    LET ns1 == IF ns[cur].paramNode = NilNode
               THEN Append([ns EXCEPT ![cur].paramNode = Len(ns) + 1,
                                      ![cur].paramName = paramName], NewNode)
               ELSE ns
    IN  IF ns1[cur].paramName # paramName
        THEN [nodes |-> ns1, n |-> cur,
              err |-> ParamConflictErr(ns1[cur].paramName, paramName)]
        ELSE [nodes |-> ns1, n |-> ns1[cur].paramNode, err |-> NilErr]

\* AddWildcardPart that gives an existing wildcard child a second child node
\* under the new name
AddWildcardPartReplace(ns, cur, wName) ==
    LET ns1 == IF ns[cur].catchAllNode = NilNode \/ ns[cur].catchAllName # wName
               THEN Append([ns EXCEPT ![cur].catchAllNode = Len(ns) + 1,
                                      ![cur].catchAllName = wName], NewNode)
               ELSE ns
    IN  [nodes |-> ns1, n |-> ns1[cur].catchAllNode, err |-> NilErr]

\* the wildcard branch of the loop body
AddWildcardPart(ns, cur, wName) ==
    LET ns1 == IF ns[cur].catchAllNode = NilNode
               THEN Append([ns EXCEPT ![cur].catchAllNode = Len(ns) + 1,
                                      ![cur].catchAllName = wName], NewNode)
               ELSE ns
    IN  IF ns1[cur].catchAllName # wName
        THEN [nodes |-> ns1, n |-> cur,
              err |-> WildcardConflictErr(ns1[cur].catchAllName, wName)]
        ELSE [nodes |-> ns1, n |-> ns1[cur].catchAllNode, err |-> NilErr]

\* the static branch of the loop body
AddStaticPart(ns, cur, part) ==
    LET ns1 == IF part \notin DOMAIN ns[cur].children
               THEN Append([ns EXCEPT ![cur].children = MapPut(@, part, Len(ns) + 1)],
                           NewNode)
               ELSE ns
    IN  [nodes |-> ns1, n |-> ns1[cur].children[part], err |-> NilErr]

\* one pass of "for _, part := range parts"
AddPart(ns, cur, part) ==
    IF IsParam(part) THEN AddParamPart(ns, cur, ParamNameOf(part))
    ELSE IF IsWildcard(part) THEN AddWildcardPart(ns, cur, WildcardNameOf(part))
    ELSE AddStaticPart(ns, cur, part)

\* the loop over parts, from parts[i] on; stops at the first error
RECURSIVE AddLoop(_, _, _, _)
AddLoop(ns, cur, parts, i) ==
    IF i > Len(parts) THEN [nodes |-> ns, n |-> cur, err |-> NilErr]
    ELSE IF parts[i] = EmptyString THEN AddLoop(ns, cur, parts, i + 1)
    ELSE LET w == AddPart(ns, cur, parts[i])
         IN  IF w.err # NilErr THEN w ELSE AddLoop(w.nodes, w.n, parts, i + 1)

\* "Normalize path": an empty path is "/", and a leading "/" is ensured
NormalizePath(path) ==
    LET p1 == IF path = EmptyString THEN <<Slash>> ELSE path
    IN  IF p1[1] # Slash THEN <<Slash>> \o p1 ELSE p1

\* the router-level middlewares come before the route's own
CombineMiddlewares(global, middlewares) ==
    IF Len(global) > 0 THEN global \o middlewares ELSE middlewares

\* SetRoute that keeps the handler of a route that is already there
SetRouteKeepFirst(ns, cur, method, path, handler, middlewares) ==
    IF ns[cur].Handler # NilHandler THEN ns
    ELSE [ns EXCEPT ![cur].Handler = IF Len(middlewares) > 0
                                     THEN Compile(handler, middlewares) ELSE handler,
                    ![cur].Middlewares = middlewares,
                    ![cur].Path = path,
                    ![cur].Method = method]

\* the assignments to the terminal node's embedded Route
SetRoute(ns, cur, method, path, handler, middlewares) ==
    [ns EXCEPT ![cur].Handler = IF Len(middlewares) > 0
                                THEN Compile(handler, middlewares) ELSE handler,
               ![cur].Middlewares = middlewares,
               ![cur].Path = path,
               ![cur].Method = method]

\* EnsureRoot that points every method without a root at the new node
EnsureRootShared(ns, rt, method) ==
    IF rt[method] # NilNode THEN [nodes |-> ns, root |-> rt]
    ELSE [nodes |-> Append(ns, NewNode),
          root |-> [m \in DOMAIN rt |-> IF rt[m] = NilNode THEN Len(ns) + 1 ELSE rt[m]]]

\* the method's root node is created on the first Add under that method
EnsureRoot(ns, rt, method) ==
    IF rt[method] # NilNode THEN [nodes |-> ns, root |-> rt]
    ELSE [nodes |-> Append(ns, NewNode), root |-> [rt EXCEPT ![method] = Len(ns) + 1]]

\* the whole of Add as a function of the router's state: the new heap, the new
\* root map and the returned error
AddResult(ns, rt, global, method, path, handler, middlewares) ==
    LET mws == CombineMiddlewares(global, middlewares)
        r0 == EnsureRoot(ns, rt, method)
        p == NormalizePath(path)
        sp == Trim(p, Slash)
        w == IF sp # EmptyString
             THEN AddLoop(r0.nodes, r0.root[method], Split(sp, Slash), 1)
             ELSE [nodes |-> r0.nodes, n |-> r0.root[method], err |-> NilErr]
    IN  IF w.err # NilErr
        THEN [nodes |-> w.nodes, root |-> r0.root, err |-> w.err]
        ELSE [nodes |-> SetRoute(w.nodes, w.n, method, p, handler, mws),
              root |-> r0.root, err |-> NilErr]

Add(method, path, handler, middlewares) ==
    /\ pc = "idle"
    /\ Len(history) < MaxAdds
    /\ LET r == AddResult(nodes, root, globalMiddlewares, method, path, handler,
                          middlewares)
       IN  /\ nodes' = r.nodes
           /\ root' = r.root
           /\ history' = Append(history, [method |-> method, path |-> path,
                                          handler |-> handler, err |-> r.err])
    /\ UNCHANGED <<globalMiddlewares, pc, fMethod, fPath, n, searchPath, hasCtx,
                   Params, result, iters>>
    /\ UNCHANGED beyondRouter

(***************************************************************************)
(* amaro.Context: the parameter sink                                       *)
(***************************************************************************)
Param(key, value) == [Key |-> key, Value |-> value]

\* AddParam that puts the new entry in front
AddParamInFront(params, key, value) == <<Param(key, value)>> \o params

\* Context.AddParam
AddParam(params, key, value) == Append(params, Param(key, value))

\* Context.PathParam: the value of the first entry with that key, "" without one
PathParam(params, name) ==
    IF \E i \in 1..Len(params) : params[i].Key = name
    THEN params[CHOOSE i \in 1..Len(params) :
                    /\ params[i].Key = name
                    /\ \A j \in 1..(i - 1) : params[j].Key # name].Value
    ELSE EmptyString

(***************************************************************************)
(* TrieRouter.Find                                                         *)
(***************************************************************************)
NoResult == [route |-> NilNode, err |-> NilErr]

Found(addr) == [route |-> addr, err |-> NilErr]

NotFound(err) == [route |-> NilNode, err |-> err]

\* searchPath: the path without one leading and without one trailing "/"
StripSlashes(path) ==
    LET s1 == IF Len(path) > 0 /\ path[1] = Slash THEN Tail(path) ELSE path
    IN  IF Len(s1) > 0 /\ s1[Len(s1)] = Slash THEN SubSeq(s1, 1, Len(s1) - 1) ELSE s1

\* NextPart that leaves the "/" at the head of what remains
NextPartKeepSlash(sp) ==
    LET i == IndexByte(sp, Slash)
    IN  IF i < 0 THEN [part |-> sp, rest |-> EmptyString]
        ELSE [part |-> SubSeq(sp, 1, i), rest |-> SubSeq(sp, i + 1, Len(sp))]

\* the next part of searchPath and what remains after it
NextPart(sp) ==
    LET i == IndexByte(sp, Slash)
    IN  IF i < 0 THEN [part |-> sp, rest |-> EmptyString]
        ELSE [part |-> SubSeq(sp, 1, i), rest |-> SubSeq(sp, i + 2, Len(sp))]

\* CatchAllValue that keeps only the current part
CatchAllValuePartOnly(part, rest) == part

\* the value recorded for a wildcard
CatchAllValue(part, rest) ==
    IF Len(rest) > 0 THEN part \o <<Slash>> \o rest ELSE part

\* FindAtEnd that returns the node's route without looking at its handler
FindAtEndNoHandlerCheck(ns, cur, ctx, params) ==
    [pc |-> "done", n |-> cur, searchPath |-> EmptyString, Params |-> params,
     result |-> Found(cur)]

\* FindAtEnd that looks at the catch-all child before the node's own handler
FindAtEndCatchAllFirst(ns, cur, ctx, params) ==
    IF ns[cur].catchAllNode # NilNode
    THEN LET params1 == IF ctx THEN AddParam(params, ns[cur].catchAllName, EmptyString)
                        ELSE params
         IN  [pc |-> "done", n |-> cur, searchPath |-> EmptyString, Params |-> params1,
              result |-> IF ns[ns[cur].catchAllNode].Handler # NilHandler
                         THEN Found(ns[cur].catchAllNode)
                         ELSE NotFound(RouteNotFoundErr)]
    ELSE IF ns[cur].Handler # NilHandler
    THEN [pc |-> "done", n |-> cur, searchPath |-> EmptyString, Params |-> params,
          result |-> Found(cur)]
    ELSE [pc |-> "done", n |-> cur, searchPath |-> EmptyString, Params |-> params,
          result |-> NotFound(RouteNotFoundErr)]

\* FindAtEnd that empties the sink when it finds no route
FindAtEndClearOnFail(ns, cur, ctx, params) ==
    IF ns[cur].Handler # NilHandler
    THEN [pc |-> "done", n |-> cur, searchPath |-> EmptyString, Params |-> params,
          result |-> Found(cur)]
    ELSE IF ns[cur].catchAllNode # NilNode
    THEN LET params1 == IF ctx THEN AddParam(params, ns[cur].catchAllName, EmptyString)
                        ELSE params
         IN  [pc |-> "done", n |-> cur, searchPath |-> EmptyString, Params |-> params1,
              result |-> IF ns[ns[cur].catchAllNode].Handler # NilHandler
                         THEN Found(ns[cur].catchAllNode)
                         ELSE NotFound(RouteNotFoundErr)]
    ELSE [pc |-> "done", n |-> cur, searchPath |-> EmptyString, Params |-> <<>>,
          result |-> NotFound(RouteNotFoundErr)]

\* the loop body when searchPath is empty
FindAtEnd(ns, cur, ctx, params) ==
    IF ns[cur].Handler # NilHandler
    THEN [pc |-> "done", n |-> cur, searchPath |-> EmptyString, Params |-> params,
          result |-> Found(cur)]
    ELSE IF ns[cur].catchAllNode # NilNode
    THEN LET params1 == IF ctx THEN AddParam(params, ns[cur].catchAllName, EmptyString)
                        ELSE params
         IN  [pc |-> "done", n |-> cur, searchPath |-> EmptyString, Params |-> params1,
              result |-> IF ns[ns[cur].catchAllNode].Handler # NilHandler
                         THEN Found(ns[cur].catchAllNode)
                         ELSE NotFound(RouteNotFoundErr)]
    ELSE [pc |-> "done", n |-> cur, searchPath |-> EmptyString, Params |-> params,
          result |-> NotFound(RouteNotFoundErr)]

\* FindDescend that looks ahead: a literal child that ends the path without a
\* route is passed over for the parameter or the wildcard child
FindDescendLookAhead(ns, cur, part, rest, ctx, params) ==
    IF /\ part \in DOMAIN ns[cur].children
       /\ ~(/\ rest = EmptyString
            /\ ns[ns[cur].children[part]].Handler = NilHandler
            /\ ns[ns[cur].children[part]].catchAllNode = NilNode)
    THEN [pc |-> "loop", n |-> ns[cur].children[part], searchPath |-> rest,
          Params |-> params, result |-> NoResult]
    ELSE IF ns[cur].paramNode # NilNode
    THEN [pc |-> "loop", n |-> ns[cur].paramNode, searchPath |-> rest,
          Params |-> IF ctx THEN AddParam(params, ns[cur].paramName, part) ELSE params,
          result |-> NoResult]
    ELSE IF ns[cur].catchAllNode # NilNode
    THEN [pc |-> "done", n |-> cur, searchPath |-> rest,
          Params |-> IF ctx
                     THEN AddParam(params, ns[cur].catchAllName, CatchAllValue(part, rest))
                     ELSE params,
          result |-> IF ns[ns[cur].catchAllNode].Handler # NilHandler
                     THEN Found(ns[cur].catchAllNode)
                     ELSE NotFound(RouteNotFoundErr)]
    ELSE [pc |-> "done", n |-> cur, searchPath |-> rest, Params |-> params,
          result |-> NotFound(RouteNotFoundErr)]

\* FindDescend with the parameter child tried before the static children
FindDescendParamFirst(ns, cur, part, rest, ctx, params) ==
    IF ns[cur].paramNode # NilNode
    THEN [pc |-> "loop", n |-> ns[cur].paramNode, searchPath |-> rest,
          Params |-> IF ctx THEN AddParam(params, ns[cur].paramName, part) ELSE params,
          result |-> NoResult]
    ELSE IF part \in DOMAIN ns[cur].children
    THEN [pc |-> "loop", n |-> ns[cur].children[part], searchPath |-> rest,
          Params |-> params, result |-> NoResult]
    ELSE IF ns[cur].catchAllNode # NilNode
    THEN [pc |-> "done", n |-> cur, searchPath |-> rest,
          Params |-> IF ctx
                     THEN AddParam(params, ns[cur].catchAllName, CatchAllValue(part, rest))
                     ELSE params,
          result |-> IF ns[ns[cur].catchAllNode].Handler # NilHandler
                     THEN Found(ns[cur].catchAllNode)
                     ELSE NotFound(RouteNotFoundErr)]
    ELSE [pc |-> "done", n |-> cur, searchPath |-> rest, Params |-> params,
          result |-> NotFound(RouteNotFoundErr)]

\* FindDescend with the catch-all child tried before the parameter child
FindDescendCatchAllFirst(ns, cur, part, rest, ctx, params) ==
    IF part \in DOMAIN ns[cur].children
    THEN [pc |-> "loop", n |-> ns[cur].children[part], searchPath |-> rest,
          Params |-> params, result |-> NoResult]
    ELSE IF ns[cur].catchAllNode # NilNode
    THEN [pc |-> "done", n |-> cur, searchPath |-> rest,
          Params |-> IF ctx
                     THEN AddParam(params, ns[cur].catchAllName, CatchAllValue(part, rest))
                     ELSE params,
          result |-> IF ns[ns[cur].catchAllNode].Handler # NilHandler
                     THEN Found(ns[cur].catchAllNode)
                     ELSE NotFound(RouteNotFoundErr)]
    ELSE IF ns[cur].paramNode # NilNode
    THEN [pc |-> "loop", n |-> ns[cur].paramNode, searchPath |-> rest,
          Params |-> IF ctx THEN AddParam(params, ns[cur].paramName, part) ELSE params,
          result |-> NoResult]
    ELSE [pc |-> "done", n |-> cur, searchPath |-> rest, Params |-> params,
          result |-> NotFound(RouteNotFoundErr)]

\* the loop body for a non-empty part: static, then param, then catch-all
\* FindDescend that walks on from the wildcard child
FindDescendThroughWildcard(ns, cur, part, rest, ctx, params) ==
    IF part \in DOMAIN ns[cur].children
    THEN [pc |-> "loop", n |-> ns[cur].children[part], searchPath |-> rest,
          Params |-> params, result |-> NoResult]
    ELSE IF ns[cur].paramNode # NilNode
    THEN [pc |-> "loop", n |-> ns[cur].paramNode, searchPath |-> rest,
          Params |-> IF ctx THEN AddParam(params, ns[cur].paramName, part) ELSE params,
          result |-> NoResult]
    ELSE IF ns[cur].catchAllNode # NilNode
    THEN [pc |-> "loop", n |-> ns[cur].catchAllNode, searchPath |-> rest,
          Params |-> IF ctx
                     THEN AddParam(params, ns[cur].catchAllName, CatchAllValue(part, rest))
                     ELSE params,
          result |-> NoResult]
    ELSE [pc |-> "done", n |-> cur, searchPath |-> rest, Params |-> params,
          result |-> NotFound(RouteNotFoundErr)]

FindDescend(ns, cur, part, rest, ctx, params) ==
    IF part \in DOMAIN ns[cur].children
    THEN [pc |-> "loop", n |-> ns[cur].children[part], searchPath |-> rest,
          Params |-> params, result |-> NoResult]
    ELSE IF ns[cur].paramNode # NilNode
    THEN [pc |-> "loop", n |-> ns[cur].paramNode, searchPath |-> rest,
          Params |-> IF ctx THEN AddParam(params, ns[cur].paramName, part) ELSE params,
          result |-> NoResult]
    ELSE IF ns[cur].catchAllNode # NilNode
    THEN [pc |-> "done", n |-> cur, searchPath |-> rest,
          Params |-> IF ctx
                     THEN AddParam(params, ns[cur].catchAllName, CatchAllValue(part, rest))
                     ELSE params,
          result |-> IF ns[ns[cur].catchAllNode].Handler # NilHandler
                     THEN Found(ns[cur].catchAllNode)
                     ELSE NotFound(RouteNotFoundErr)]
    ELSE [pc |-> "done", n |-> cur, searchPath |-> rest, Params |-> params,
          result |-> NotFound(RouteNotFoundErr)]

\* FindIteration that does not skip an empty part
FindIterationNoSkip(ns, cur, sp, ctx, params) ==
    IF ~(Len(sp) > 0 \/ cur # NilNode)
    THEN [pc |-> "done", n |-> cur, searchPath |-> sp, Params |-> params,
          result |-> NotFound(RouteNotFoundErr)]
    ELSE IF Len(sp) = 0 THEN FindAtEnd(ns, cur, ctx, params)
    ELSE LET np == NextPart(sp)
         IN  FindDescend(ns, cur, np.part, np.rest, ctx, params)

\* one iteration of "for len(searchPath) > 0 || n != nil"
FindIteration(ns, cur, sp, ctx, params) ==
    IF ~(Len(sp) > 0 \/ cur # NilNode)
    THEN [pc |-> "done", n |-> cur, searchPath |-> sp, Params |-> params,
          result |-> NotFound(RouteNotFoundErr)]
    ELSE IF Len(sp) = 0 THEN FindAtEnd(ns, cur, ctx, params)
    ELSE LET np == NextPart(sp)
         IN  IF np.part = EmptyString
             THEN [pc |-> "loop", n |-> cur, searchPath |-> np.rest, Params |-> params,
                   result |-> NoResult]
             ELSE FindDescend(ns, cur, np.part, np.rest, ctx, params)

\* Find up to the loop: the method's root and the stripped path
FindEntry(rt, method, path) ==
    IF rt[method] = NilNode
    THEN [pc |-> "done", n |-> NilNode, searchPath |-> EmptyString,
          result |-> NotFound(MethodNotFoundErr)]
    ELSE [pc |-> "loop", n |-> rt[method], searchPath |-> StripSlashes(path),
          result |-> NoResult]

\* the loop run to its return
RECURSIVE FindRun(_, _, _, _, _)
FindRun(ns, cur, sp, ctx, params) ==
    LET s == FindIteration(ns, cur, sp, ctx, params)
    IN  IF s.pc = "done" THEN s ELSE FindRun(ns, s.n, s.searchPath, ctx, s.Params)

\* a whole call of Find with the sink params: what it returns and the sink after it
FindCall(ns, rt, method, path, params) ==
    LET e == FindEntry(rt, method, path)
    IN  IF e.pc = "done" THEN [result |-> e.result, Params |-> params]
        ELSE LET s == FindRun(ns, e.n, e.searchPath, TRUE, params)
             IN  [result |-> s.result, Params |-> s.Params]

FindStart(method, path, ctx) ==
    /\ pc = "idle"
    /\ fMethod' = method
    /\ fPath' = path
    /\ hasCtx' = ctx
    /\ LET e == FindEntry(root, method, path)
       IN  /\ pc' = e.pc
           /\ n' = e.n
           /\ searchPath' = e.searchPath
           /\ result' = e.result
    /\ iters' = 0
    /\ UNCHANGED <<nodes, root, globalMiddlewares, history, Params>>
    /\ UNCHANGED beyondRouter

FindLoop ==
    /\ pc = "loop"
    /\ LET s == FindIteration(nodes, n, searchPath, hasCtx, Params)
       IN  /\ pc' = s.pc
           /\ n' = s.n
           /\ searchPath' = s.searchPath
           /\ Params' = s.Params
           /\ result' = s.result
    /\ iters' = iters + 1
    /\ UNCHANGED <<nodes, root, globalMiddlewares, history, fMethod, fPath, hasCtx>>
    /\ UNCHANGED beyondRouter

\* Context.Reset by the caller once it is done with the route: the sink is
\* truncated and the context is ready for the next request
Reset ==
    /\ pc = "done"
    /\ pc' = "idle"
    /\ Params' = <<>>
    /\ fMethod' = ""
    /\ fPath' = EmptyString
    /\ n' = NilNode
    /\ searchPath' = EmptyString
    /\ hasCtx' = FALSE
    /\ result' = NoResult
    /\ iters' = 0
    /\ UNCHANGED <<nodes, root, globalMiddlewares, history>>
    /\ UNCHANGED beyondRouter

(***************************************************************************)
(* The Params slice with its capacity                                      *)
(***************************************************************************)
\* the capacity NewContext and Reset give the slice
SinkCapacity == 10

\* make([]Param, 0, 10)
NewSlice == [items |-> <<>>, cap |-> SinkCapacity]

\* the Params of a Context that was not made by NewContext: a nil slice
NilSlice == [items |-> <<>>, cap |-> 0]

\* the capacity after append has made room for one more entry: a slice that is
\* full moves to an array of twice the size (of size one for an empty array)
GrowCap(cap, len) ==
    IF len < cap THEN cap
    ELSE IF cap = 0 THEN 1
    ELSE 2 * cap

\* Context.AddParam on the slice
AppendParam(sl, key, value) ==
    [items |-> AddParam(sl.items, key, value), cap |-> GrowCap(sl.cap, Len(sl.items))]

\* Reset's statement on Params that always makes a new slice
ResetParamsAlwaysMake(sl) == [items |-> <<>>, cap |-> SinkCapacity]

\* Reset's statement on Params
ResetParams(sl) ==
    IF sl.cap < SinkCapacity THEN [items |-> <<>>, cap |-> SinkCapacity]
    ELSE [items |-> <<>>, cap |-> sl.cap]

SinkAddParam(key, value) ==
    /\ Len(sink.items) < MaxParams
    /\ sink' = AppendParam(sink, key, value)
    /\ sinkLog' = Append(sinkLog, <<key, value>>)
    /\ UNCHANGED <<routerVars, findVars, chainVars, parVars, appVars, groupVars>>

SinkReset ==
    /\ sink' = ResetParams(sink)
    /\ sinkLog' = <<>>
    /\ UNCHANGED <<routerVars, findVars, chainVars, parVars, appVars, groupVars>>

(***************************************************************************)
(* Handlers and middlewares                                                *)
(*                                                                         *)
(* A Handler is the chain of the functions it runs, outermost first: the   *)
(* middlewares that Compile wrapped around it and then the handler itself. *)
(* A function of the chain is [name, kind]; its kind is what it does with  *)
(* next: "pass" calls next and returns what next returned, "stop" returns  *)
(* nil and "deny" returns an error without calling next; the handler at    *)
(* the end returns nil ("ok"), returns an error ("err") or panics.         *)
(***************************************************************************)
Fn(name, kind) == [name |-> name, kind |-> kind]

\* the kinds of function that call next(c)
CallsNext(kind) == kind \in {"pass", "recovery"}

\* what a function that does not call next returns
ReturnOf(kind) ==
    IF kind \in {"ok", "stop"} THEN "nil"
    ELSE IF kind \in {"err", "deny"} THEN "err"
    ELSE "panic"

\* no invocation is under way
IdleRun == [mode |-> "idle", chain |-> <<>>, stack |-> <<>>, trace |-> <<>>,
            ret |-> "none"]

\* the call handler(c)
StartRun(handler) == [mode |-> "call", chain |-> handler, stack |-> <<>>,
                      trace |-> <<>>, ret |-> "none"]

\* one step of an invocation: the call of the next function of the chain, or
\* the return of the innermost open call.  A panic unwinds the open calls up
\* to a Recovery, whose deferred function recovers it, writes the 500 response
\* ("recover" in the trace) and lets nil be returned.
HandlerStep(st) ==
    IF st.mode = "call"
    THEN LET i == Len(st.stack) + 1
             e == st.chain[i]
         IN  [st EXCEPT !.stack = Append(@, i),
                        !.trace = Append(@, <<"enter", e.name>>),
                        !.mode = IF CallsNext(e.kind) THEN "call" ELSE "return",
                        !.ret = IF CallsNext(e.kind) THEN "none" ELSE ReturnOf(e.kind)]
    ELSE LET i == st.stack[Len(st.stack)]
             e == st.chain[i]
             recovered == st.ret = "panic" /\ e.kind = "recovery"
         IN  [st EXCEPT !.stack = SubSeq(@, 1, Len(@) - 1),
                        !.trace = Append(@, IF recovered THEN <<"recover", e.name>>
                                            ELSE IF st.ret = "panic"
                                            THEN <<"unwind", e.name>>
                                            ELSE <<"leave", e.name>>),
                        !.ret = IF recovered THEN "nil" ELSE @,
                        !.mode = IF Len(st.stack) = 1 THEN "done" ELSE "return"]

\* the invocation run to its end
RECURSIVE RunHandler(_)
RunHandler(st) == IF st.mode = "done" THEN st ELSE RunHandler(HandlerStep(st))

\* a route is registered on GET /a with a handler and a list of middlewares
ChainAdd(handler, middlewares) ==
    /\ run.mode = "idle"
    /\ Len(history) < MaxAdds
    /\ LET r == AddResult(nodes, root, globalMiddlewares, "GET", <<"/", "a">>, handler,
                          middlewares)
       IN  /\ nodes' = r.nodes
           /\ root' = r.root
           /\ history' = Append(history, [method |-> "GET", path |-> <<"/", "a">>,
                                          handler |-> handler,
                                          middlewares |-> middlewares, err |-> r.err])
    /\ UNCHANGED <<globalMiddlewares, findVars, chainVars, sinkVars, parVars, appVars, groupVars>>

\* the caller looks the route up and calls its stored handler
Invoke ==
    /\ run.mode = "idle"
    /\ LET f == FindCall(nodes, root, "GET", <<"/", "a">>, <<>>)
       IN  /\ f.result.err = NilErr
           /\ run' = StartRun(nodes[f.result.route].Handler)
    /\ UNCHANGED <<routerVars, findVars, sinkVars, parVars, appVars, groupVars>>

RunStep ==
    /\ run.mode \in {"call", "return"}
    /\ run' = HandlerStep(run)
    /\ UNCHANGED <<routerVars, findVars, sinkVars, parVars, appVars, groupVars>>

\* the stored handler has returned to the caller
RunEnd ==
    /\ run.mode = "done"
    /\ run' = IdleRun
    /\ UNCHANGED <<routerVars, findVars, sinkVars, parVars, appVars, groupVars>>

(***************************************************************************)
(* Calls of Find side by side                                              *)
(***************************************************************************)
\* the callers: two request goroutines, each with a Context of its own
Finders == {"f1", "f2"}

IdleCall == [pc |-> "idle", method |-> "", path |-> EmptyString, n |-> NilNode,
             searchPath |-> EmptyString, Params |-> <<>>, result |-> NoResult]

NoCalls == [f \in Finders |-> IdleCall]

\* the loop iteration of caller f that writes every parameter into the sink of
\* the first caller
ParIterationSharedSink(cs, f, ns) ==
    LET s == FindIteration(ns, cs[f].n, cs[f].searchPath, TRUE, cs["f1"].Params)
    IN  [cs EXCEPT ![f].pc = s.pc, ![f].n = s.n, ![f].searchPath = s.searchPath,
                   ![f].result = s.result, !["f1"].Params = s.Params]

\* one loop iteration of caller f: it reads the trie and writes its locals and
\* its own sink
ParIteration(cs, f, ns) ==
    LET s == FindIteration(ns, cs[f].n, cs[f].searchPath, TRUE, cs[f].Params)
    IN  [cs EXCEPT ![f].pc = s.pc, ![f].n = s.n, ![f].searchPath = s.searchPath,
                   ![f].result = s.result, ![f].Params = s.Params]

\* registration: no call of Find is under way
ParAdd(method, path, handler) ==
    /\ \A f \in Finders : calls[f].pc = "idle"
    /\ Len(history) < MaxAdds
    /\ LET r == AddResult(nodes, root, globalMiddlewares, method, path, handler, <<>>)
       IN  /\ nodes' = r.nodes
           /\ root' = r.root
           /\ history' = Append(history, [method |-> method, path |-> path,
                                          handler |-> handler, err |-> r.err])
    /\ UNCHANGED <<globalMiddlewares, findVars, chainVars, sinkVars, parVars, appVars, groupVars>>

ParFindStart(f, method, path) ==
    /\ calls[f].pc = "idle"
    /\ LET e == FindEntry(root, method, path)
       IN  calls' = [calls EXCEPT ![f] = [pc |-> e.pc, method |-> method, path |-> path,
                                          n |-> e.n, searchPath |-> e.searchPath,
                                          Params |-> <<>>, result |-> e.result]]
    /\ UNCHANGED <<routerVars, findVars, chainVars, sinkVars, appVars, groupVars>>

ParFindLoop(f) ==
    /\ calls[f].pc = "loop"
    /\ calls' = ParIteration(calls, f, nodes)
    /\ UNCHANGED <<routerVars, findVars, chainVars, sinkVars, appVars, groupVars>>

\* caller f is done with the route and resets its Context
ParReturn(f) ==
    /\ calls[f].pc = "done"
    /\ calls' = [calls EXCEPT ![f] = IdleCall]
    /\ UNCHANGED <<routerVars, findVars, chainVars, sinkVars, appVars, groupVars>>

(***************************************************************************)
(* amaro.App: global middlewares, the Context pool and ServeHTTP           *)
(***************************************************************************)
\* the calls of ServeHTTP that run side by side, and the Contexts the pool's
\* New function can make
Reqs == {"r1", "r2"}

Ctxs == {"c1", "c2"}

\* Recovery(), the middleware New installs first
RecoveryMw == Fn("Recovery", "recovery")

\* App.dispatch as the innermost function of the composed handler
DispatchFn == Fn("dispatch", "dispatch")

\* a Context in the pool's New state, held by nobody
NewCtx == [Params |-> <<>>, method |-> "", path |-> EmptyString, holder |-> "none"]

\* no Group has been made
NoGroups == <<>>

\* a call of ServeHTTP: its position, its request, its Context, the run of
\* a.handler, the calls of the error handler for its request and its pool.Put calls
IdleReq == [pc |-> "idle", method |-> "", path |-> EmptyString, ctx |-> "none",
            st |-> IdleRun, errs |-> <<>>, puts |-> <<>>]

\* the goroutine of Timeout: its run of next, and who held the Context when it ran
NoGo == [state |-> "none", st |-> IdleRun, heldBy |-> "none"]

InitApp ==
    /\ appMws = <<RecoveryMw>>
    /\ appHandler = NilHandler
    /\ onceDone = FALSE
    /\ composed = <<>>
    /\ pool = {}
    /\ ctxs = [c \in Ctxs |-> NewCtx]
    /\ reqs = [r \in Reqs |-> IdleReq]
    /\ gos = [r \in Reqs |-> NoGo]
    /\ crashed = FALSE

\* App.dispatch entered as function i of the run, with f what Find answered:
\* the error handler is called with 404, or the route's stored handler is next
Dispatched(entered, cx, i, f) ==
    IF f.result.err # NilErr
    THEN [st |-> [entered EXCEPT !.trace = Append(@, <<"error", "404">>),
                                 !.mode = "return", !.ret = "nil"],
          cx |-> [cx EXCEPT !.Params = f.Params],
          errs |-> <<"404">>]
    ELSE [st |-> [entered EXCEPT
                     !.chain = SubSeq(entered.chain, 1, i)
                                   \o nodes[f.result.route].Handler],
          cx |-> [cx EXCEPT !.Params = f.Params],
          errs |-> <<>>]

\* the run after function i, called name, was entered
Entered(st, i, name) ==
    [st EXCEPT !.stack = Append(@, i), !.trace = Append(@, <<"enter", name>>)]

\* one step of the composed handler on the Context cx: dispatch looks the
\* route up with the request the Context is bound to and calls the stored
\* handler, or calls the error handler with 404; Timeout starts a goroutine
\* for next and waits in its select
AppStep(st, cx) ==
    LET i == Len(st.stack) + 1
        e == IF st.mode = "call" THEN st.chain[i] ELSE Fn("", "")
    IN  IF e.kind = "dispatch"
        THEN Dispatched(Entered(st, i, e.name), cx, i,
                        FindCall(nodes, root, cx.method, cx.path, cx.Params))
        ELSE IF e.kind = "timeout"
        THEN [st |-> [Entered(st, i, e.name) EXCEPT !.mode = "select"],
              cx |-> cx, errs |-> <<>>]
        ELSE [st |-> HandlerStep(st), cx |-> cx, errs |-> <<>>]

\* the handler run until it returns or waits in Timeout's select
RECURSIVE RunSync(_, _, _)
RunFrom(s, errs) == RunSync(s.st, s.cx, errs \o s.errs)

RunSync(st, cx, errs) ==
    IF st.mode \in {"done", "select"} THEN [st |-> st, cx |-> cx, errs |-> errs]
    ELSE RunFrom(AppStep(st, cx), errs)

\* App.Use putting the middleware in front of the list
UsePrepend(middleware) ==
    /\ ~crashed
    /\ Len(appMws) < 1 + MaxUses
    /\ \A i \in 1..Len(appMws) : appMws[i] # middleware
    /\ appMws' = <<middleware>> \o appMws
    /\ UNCHANGED <<appHandler, onceDone, composed, pool, ctxs, reqs, gos, crashed>>
    /\ UNCHANGED <<routerVars, findVars, chainVars, sinkVars, parVars, groupVars>>

\* App.Use
Use(middleware) ==
    /\ ~crashed
    /\ Len(appMws) < 1 + MaxUses
    /\ \A i \in 1..Len(appMws) : appMws[i] # middleware
    /\ appMws' = Append(appMws, middleware)
    /\ UNCHANGED <<appHandler, onceDone, composed, pool, ctxs, reqs, gos, crashed>>
    /\ UNCHANGED <<routerVars, findVars, chainVars, sinkVars, parVars, groupVars>>

\* App.GET: the application's route is registered, before any request is served
AppAdd(path, handler) ==
    /\ ~crashed
    /\ history = <<>>
    /\ \A r \in Reqs : reqs[r].pc = "idle"
    /\ LET r == AddResult(nodes, root, globalMiddlewares, "GET", path, handler, <<>>)
       IN  /\ nodes' = r.nodes
           /\ root' = r.root
           /\ history' = Append(history, [method |-> "GET", path |-> path,
                                          handler |-> handler, err |-> r.err])
    /\ UNCHANGED <<globalMiddlewares, findVars, chainVars, sinkVars, parVars, appVars, groupVars>>

\* the function setup hands to once.Do, run on every call
SetupEveryTime(done, handler, mws) ==
    [onceDone |-> TRUE, appHandler |-> Compile(<<DispatchFn>>, mws), composed |-> <<mws>>]

\* App.setup: once.Do runs the composition on the first call only
SetupOnce(done, handler, mws) ==
    IF done THEN [onceDone |-> done, appHandler |-> handler, composed |-> <<>>]
    ELSE [onceDone |-> TRUE, appHandler |-> Compile(<<DispatchFn>>, mws),
          composed |-> <<mws>>]

\* the Contexts pool.Get may return: one that was put back, or a new one
Unmade(c) == c \notin pool /\ ctxs[c].holder = "none"

Gettable(c) ==
    \/ c \in pool
    \/ Unmade(c) /\ (c = "c1" \/ ~Unmade("c1"))

\* the pool.Put calls of a ServeHTTP that returns early on an error
PutsUnlessError(c, ret) == IF ret = "err" THEN <<>> ELSE <<c>>

\* the pool.Put calls on the way out of ServeHTTP: the deferred one
PutsOnExit(c, ret) == <<c>>

\* a request arrives
ServeStart(r, method, path) ==
    /\ ~crashed
    /\ reqs[r].pc = "idle"
    /\ reqs' = [reqs EXCEPT ![r].pc = "check", ![r].method = method, ![r].path = path]
    /\ UNCHANGED <<appMws, appHandler, onceDone, composed, pool, ctxs, gos, crashed>>
    /\ UNCHANGED <<routerVars, findVars, chainVars, sinkVars, parVars, groupVars>>

\* "if a.handler == nil"
ServeCheck(r) ==
    /\ ~crashed
    /\ reqs[r].pc = "check"
    /\ reqs' = [reqs EXCEPT ![r].pc = IF appHandler = NilHandler THEN "setup"
                                      ELSE "acquire"]
    /\ UNCHANGED <<appMws, appHandler, onceDone, composed, pool, ctxs, gos, crashed>>
    /\ UNCHANGED <<routerVars, findVars, chainVars, sinkVars, parVars, groupVars>>

\* a.setup()
Setup(r) ==
    /\ ~crashed
    /\ reqs[r].pc = "setup"
    /\ LET u == SetupOnce(onceDone, appHandler, appMws)
       IN  /\ onceDone' = u.onceDone
           /\ appHandler' = u.appHandler
           /\ composed' = composed \o u.composed
    /\ reqs' = [reqs EXCEPT ![r].pc = "acquire"]
    /\ UNCHANGED <<appMws, pool, ctxs, gos, crashed>>
    /\ UNCHANGED <<routerVars, findVars, chainVars, sinkVars, parVars, groupVars>>

\* ctx := a.pool.Get(); ctx.Reset(w, r); and a.handler is read for the call
Acquire(r, c) ==
    /\ ~crashed
    /\ reqs[r].pc = "acquire"
    /\ Gettable(c)
    /\ pool' = pool \ {c}
    /\ ctxs' = [ctxs EXCEPT ![c] = [Params |-> <<>>, method |-> reqs[r].method,
                                    path |-> reqs[r].path, holder |-> r]]
    /\ reqs' = [reqs EXCEPT ![r].pc = "handle", ![r].ctx = c,
                            ![r].st = StartRun(appHandler)]
    /\ UNCHANGED <<appMws, appHandler, onceDone, composed, gos, crashed>>
    /\ UNCHANGED <<routerVars, findVars, chainVars, sinkVars, parVars, groupVars>>

\* what call r and its Context are once a.handler(ctx) has run as far as res:
\* it returned, or Timeout waits in its select and its goroutine is to run the
\* rest of the chain
Handled(r, c, res) ==
    /\ ctxs' = [ctxs EXCEPT ![c] = res.cx]
    /\ reqs' = [reqs EXCEPT ![r].st = res.st,
                            ![r].errs = @ \o res.errs,
                            ![r].pc = IF res.st.mode = "select" THEN "select"
                                      ELSE "finish"]
    /\ gos' = IF res.st.mode = "select"
              THEN [gos EXCEPT ![r] =
                       [state |-> "running", heldBy |-> "none",
                        st |-> StartRun(SubSeq(res.st.chain, Len(res.st.stack) + 1,
                                               Len(res.st.chain)))]]
              ELSE gos

\* a.handler(ctx), up to its return or to the select of Timeout
Handle(r) ==
    /\ ~crashed
    /\ reqs[r].pc = "handle"
    /\ Handled(r, reqs[r].ctx, RunSync(reqs[r].st, ctxs[reqs[r].ctx], <<>>))
    /\ UNCHANGED <<appMws, appHandler, onceDone, composed, pool, crashed>>
    /\ UNCHANGED <<routerVars, findVars, chainVars, sinkVars, parVars, groupVars>>

\* what the goroutine of call r leaves behind once next(c) has run as res on
\* the Context c, whoever holds c by then
GoRan(r, c, res) ==
    /\ ctxs' = [ctxs EXCEPT ![c] = res.cx]
    /\ gos' = [gos EXCEPT ![r] = [state |-> "finished", st |-> res.st,
                                  heldBy |-> ctxs[c].holder]]
    /\ reqs' = [reqs EXCEPT ![r].errs = @ \o res.errs]
    /\ crashed' = (res.st.ret = "panic")

\* the goroutine of Timeout runs next(c) and sends what it returned to done;
\* a panic in it is recovered by nobody
GoRun(r) ==
    /\ ~crashed
    /\ gos[r].state = "running"
    /\ GoRan(r, reqs[r].ctx, RunSync(gos[r].st, ctxs[reqs[r].ctx], <<>>))
    /\ UNCHANGED <<appMws, appHandler, onceDone, composed, pool>>
    /\ UNCHANGED <<routerVars, findVars, chainVars, sinkVars, parVars, groupVars>>

\* the select of Timeout receives from done
SelectDone(r) ==
    /\ ~crashed
    /\ reqs[r].pc = "select"
    /\ gos[r].state = "finished"
    /\ LET res == RunSync([reqs[r].st EXCEPT !.mode = "return", !.ret = gos[r].st.ret],
                          ctxs[reqs[r].ctx], <<>>)
       IN  reqs' = [reqs EXCEPT ![r].st = res.st, ![r].pc = "finish"]
    /\ UNCHANGED <<appMws, appHandler, onceDone, composed, pool, ctxs, gos, crashed>>
    /\ UNCHANGED <<routerVars, findVars, chainVars, sinkVars, parVars, groupVars>>

\* the select of Timeout receives from ctx.Done(), whether or not done holds a
\* value by then: Timeout writes the 503 header and returns ctx.Err(); the
\* trace keeps what the goroutine was doing at that moment
SelectTimeout(r) ==
    /\ ~crashed
    /\ reqs[r].pc = "select"
    /\ LET res == RunSync([reqs[r].st EXCEPT
                              !.trace = Append(@, <<"timeout", gos[r].state>>),
                              !.mode = "return", !.ret = "err"],
                          ctxs[reqs[r].ctx], <<>>)
       IN  reqs' = [reqs EXCEPT ![r].st = res.st, ![r].pc = "finish"]
    /\ UNCHANGED <<appMws, appHandler, onceDone, composed, pool, ctxs, gos, crashed>>
    /\ UNCHANGED <<routerVars, findVars, chainVars, sinkVars, parVars, groupVars>>

\* the end of ServeHTTP: the error handler with 500 when a.handler returned an
\* error, and the deferred a.pool.Put(ctx)
ServeFinish(r) ==
    /\ ~crashed
    /\ reqs[r].pc = "finish"
    /\ LET c == reqs[r].ctx
           put == PutsOnExit(c, reqs[r].st.ret)
       IN  /\ reqs' = [reqs EXCEPT ![r].pc = "returned",
                                   ![r].errs = IF reqs[r].st.ret = "err"
                                               THEN Append(@, "500") ELSE @,
                                   ![r].puts = @ \o put]
           /\ pool' = pool \cup { put[k] : k \in 1..Len(put) }
           /\ ctxs' = [x \in Ctxs |->
                          IF \E k \in 1..Len(put) : put[k] = x
                          THEN [ctxs[x] EXCEPT !.holder = "none"] ELSE ctxs[x]]
    /\ UNCHANGED <<appMws, appHandler, onceDone, composed, gos, crashed>>
    /\ UNCHANGED <<routerVars, findVars, chainVars, sinkVars, parVars, groupVars>>

(***************************************************************************)
(* amaro.Group: a path prefix and a list of middlewares in front of the    *)
(* router's Add                                                            *)
(***************************************************************************)
\* NewGroup(prefix, router); parent and given record how the Group was made:
\* the Group whose Group method made it (0 for App.Group) and the prefix passed
NewGroup(prefix, parent, given) ==
    [prefix |-> prefix, middlewares |-> <<>>, parent |-> parent, given |-> given]

\* the path Group.Add hands to the router forgetting the prefix
FullPathNoPrefix(g, path) == path

\* fullPath of Group.Add: the prefix, then the path
FullPath(g, path) == g.prefix \o path

\* App.Group, which is TrieRouter.Group
AppGroup(prefix) ==
    /\ run.mode = "idle"
    /\ Len(groups) < MaxGroups
    /\ groups' = Append(groups, NewGroup(prefix, 0, prefix))
    /\ UNCHANGED <<routerVars, findVars, chainVars, sinkVars, parVars, appVars>>

\* Group.Group
GroupGroup(g, prefix) ==
    /\ run.mode = "idle"
    /\ Len(groups) < MaxGroups
    /\ groups' = Append(groups, NewGroup(groups[g].prefix \o prefix, g, prefix))
    /\ UNCHANGED <<routerVars, findVars, chainVars, sinkVars, parVars, appVars>>

\* Group.Use
GroupUse(g, middleware) ==
    /\ run.mode = "idle"
    /\ \A i \in 1..Len(groups[g].middlewares) : groups[g].middlewares[i] # middleware
    /\ groups' = [groups EXCEPT ![g].middlewares = Append(@, middleware)]
    /\ UNCHANGED <<routerVars, findVars, chainVars, sinkVars, parVars, appVars>>

\* Group.Add, for the one route of the application; the registration is
\* recorded with the Group it went through, the path it was given and the
\* middlewares the Group had
GroupAdd(g, method, path, handler, middlewares) ==
    /\ run.mode = "idle"
    /\ history = <<>>
    /\ LET full == FullPath(groups[g], path)
           r == AddResult(nodes, root, globalMiddlewares, method, full, handler,
                          middlewares)
       IN  /\ nodes' = r.nodes
           /\ root' = r.root
           /\ history' = Append(history, [method |-> method, path |-> full,
                                          handler |-> handler,
                                          middlewares |-> middlewares, err |-> r.err,
                                          group |-> g, given |-> path,
                                          groupMws |-> groups[g].middlewares])
    /\ UNCHANGED <<globalMiddlewares, findVars, chainVars, sinkVars, parVars, appVars,
                   groupVars>>

\* a request: the route is looked up and its stored handler is called and runs
\* to its end
GroupInvoke(method, path) ==
    /\ run.mode = "idle"
    /\ LET f == FindCall(nodes, root, method, path, <<>>)
       IN  /\ f.result.err = NilErr
           /\ run' = RunHandler(StartRun(nodes[f.result.route].Handler))
    /\ UNCHANGED <<routerVars, findVars, sinkVars, parVars, appVars, groupVars>>

(***************************************************************************)
(* TrieRouter.Use: router-level middlewares                                *)
(***************************************************************************)
\* Use that puts the new middleware in front of the earlier ones
RouterUseInFront(middleware) ==
    /\ run.mode = "idle"
    /\ Len(globalMiddlewares) < MaxUses
    /\ globalMiddlewares' = <<middleware>> \o globalMiddlewares
    /\ history' = Append(history, [op |-> "Use", method |-> "", path |-> EmptyString,
                                   handler |-> NilHandler,
                                   middlewares |-> <<middleware>>, err |-> NilErr])
    /\ UNCHANGED <<nodes, root, findVars, chainVars, sinkVars, parVars, appVars,
                   groupVars>>

\* r.globalMiddlewares = append(r.globalMiddlewares, middleware); the call is
\* recorded in the history of the router's calls
RouterUse(middleware) ==
    /\ run.mode = "idle"
    /\ Len(globalMiddlewares) < MaxUses
    /\ globalMiddlewares' = Append(globalMiddlewares, middleware)
    /\ history' = Append(history, [op |-> "Use", method |-> "", path |-> EmptyString,
                                   handler |-> NilHandler,
                                   middlewares |-> <<middleware>>, err |-> NilErr])
    /\ UNCHANGED <<nodes, root, findVars, chainVars, sinkVars, parVars, appVars,
                   groupVars>>

\* the registrations among the recorded calls of the router
AddCalls(h) == SelectSeq(h, LAMBDA e : e.op = "Add")

\* TrieRouter.Add on a router that is also given middlewares with Use; the
\* call is recorded with the middlewares it was given
RouterAdd(method, path, handler, middlewares) ==
    /\ run.mode = "idle"
    /\ Len(AddCalls(history)) < MaxAdds
    /\ LET r == AddResult(nodes, root, globalMiddlewares, method, path, handler,
                          middlewares)
       IN  /\ nodes' = r.nodes
           /\ root' = r.root
           /\ history' = Append(history, [op |-> "Add", method |-> method,
                                          path |-> path, handler |-> handler,
                                          middlewares |-> middlewares,
                                          err |-> r.err])
    /\ UNCHANGED <<globalMiddlewares, findVars, chainVars, sinkVars, parVars, appVars,
                   groupVars>>

(***************************************************************************)
(* The inputs of the model                                                 *)
(***************************************************************************)
Methods == {"GET", "POST"}

\* every Add call registers a handler of its own (a Go closure); it is named by
\* the number of the call
FreshHandler == <<Len(history) + 1>>

\* registration paths: "", "/", "/a", "a//a/", "/a/:x", "/a/{y}", "/a/*x",
\* "/:x/:y", "/*x", "/*y/a"
RoutePaths ==
    { <<>>,
      <<"/">>,
      <<"/", "a">>,
      <<"a", "/", "/", "a", "/">>,
      <<"/", "a", "/", ":", "x">>,
      <<"/", "a", "/", "{", "y", "}">>,
      <<"/", "a", "/", "*", "x">>,
      <<"/", ":", "x", "/", ":", "y">>,
      <<"/", "*", "x">>,
      <<"/", "*", "y", "/", "a">> }

\* the registrations the application may make: every path under GET, and a
\* literal route and a catch-all under POST
PostPaths == { <<"/", "a">>, <<"/", "*", "x">> }

Registrations == ({"GET"} \X RoutePaths) \cup ({"POST"} \X PostPaths)

ReqChars == {"/", "a"}

\* request paths: every string over ReqChars of at most MaxPathLen characters
ReqPaths == UNION { [1..k -> ReqChars] : k \in 0..MaxPathLen }

(***************************************************************************)
(* The specification                                                       *)
(***************************************************************************)
\* NewTrieRouter: no root, no middleware; no call of Add yet
InitRouter ==
    /\ nodes = <<>>
    /\ root = [m \in Methods |-> NilNode]
    /\ globalMiddlewares = <<>>
    /\ history = <<>>

\* no call of Find is under way, and the context's sink is empty
InitFind ==
    /\ pc = "idle"
    /\ fMethod = ""
    /\ fPath = EmptyString
    /\ n = NilNode
    /\ searchPath = EmptyString
    /\ hasCtx = FALSE
    /\ Params = <<>>
    /\ result = NoResult
    /\ iters = 0

Init ==
    /\ InitRouter
    /\ InitFind
    /\ run = IdleRun
    /\ sink = NewSlice
    /\ sinkLog = <<>>
    /\ calls = NoCalls
    /\ InitApp
    /\ groups = NoGroups

Next ==
    \/ \E r \in Registrations : Add(r[1], r[2], FreshHandler, <<>>)
    \/ \E m \in Methods, p \in ReqPaths : FindStart(m, p, TRUE)
    \/ FindLoop
    \/ Reset

Spec == Init /\ [][Next]_vars

(***************************************************************************)
(* The specification of routes with middlewares: a route is registered     *)
(* with a list of middlewares, and its stored handler is invoked           *)
(***************************************************************************)
\* the middlewares a route may be given: two that call next and one that does not
MwPool == { Fn("A", "pass"), Fn("B", "pass"), Fn("C", "stop") }

\* the lists of at most MaxMws different middlewares
MwLists ==
    { l \in UNION { [1..k -> MwPool] : k \in 0..MaxMws } :
        \A i, j \in 1..Len(l) : l[i] = l[j] => i = j }

\* the route handlers: one that returns nil and one that returns an error
ChainHandlers == { <<Fn("h", "ok")>>, <<Fn("h", "err")>> }

InitChain ==
    /\ InitRouter
    /\ InitFind
    /\ run = IdleRun
    /\ sink = NewSlice
    /\ sinkLog = <<>>
    /\ calls = NoCalls
    /\ InitApp
    /\ groups = NoGroups

NextChain ==
    \/ \E h \in ChainHandlers, l \in MwLists : ChainAdd(h, l)
    \/ Invoke
    \/ RunStep
    \/ RunEnd

SpecChain == InitChain /\ [][NextChain]_vars

(***************************************************************************)
(* The specification of the sink: entries are added to the Params of a     *)
(* Context and Reset prepares it for the next request                      *)
(***************************************************************************)
ParamKeys == { <<"x">>, <<"y">> }

ParamValues == { <<"a">> }

InitSink ==
    /\ InitRouter
    /\ InitFind
    /\ run = IdleRun
    /\ sink \in {NewSlice, NilSlice}
    /\ sinkLog = <<>>
    /\ calls = NoCalls
    /\ InitApp
    /\ groups = NoGroups

NextSink ==
    \/ \E k \in ParamKeys, v \in ParamValues : SinkAddParam(k, v)
    \/ SinkReset

SpecSink == InitSink /\ [][NextSink]_vars

(***************************************************************************)
(* The specification of concurrent lookups: routes are registered while no *)
(* call of Find runs, and the callers' iterations interleave freely        *)
(***************************************************************************)
ParRegistrations ==
    {"GET"} \X { <<"/", "a">>, <<"/", ":", "x", "/", ":", "y">>,
                 <<"/", "a", "/", "*", "x">>, <<"/", "*", "x">> }

ParReqPaths == { <<"/", "a">>, <<"/", "a", "/", "a">>, <<"/", "a", "a", "/", "a", "/">> }

InitPar ==
    /\ InitRouter
    /\ InitFind
    /\ run = IdleRun
    /\ sink = NewSlice
    /\ sinkLog = <<>>
    /\ calls = NoCalls
    /\ InitApp
    /\ groups = NoGroups

NextPar ==
    \/ \E r \in ParRegistrations : ParAdd(r[1], r[2], FreshHandler)
    \/ \E f \in Finders, m \in Methods, p \in ParReqPaths : ParFindStart(f, m, p)
    \/ \E f \in Finders : ParFindLoop(f)
    \/ \E f \in Finders : ParReturn(f)

SpecPar == InitPar /\ [][NextPar]_vars

(***************************************************************************)
(* The specification of the application: a route is registered, global     *)
(* middlewares are added at any time, and two requests are served          *)
(***************************************************************************)
\* the middlewares App.Use may be given: one that calls next, one that answers
\* without calling next (as CORS does for OPTIONS), and Timeout
UsePool == { Fn("G", "pass"), Fn("S", "stop"), Fn("Timeout", "timeout") }

\* the route handlers: one returns nil, one returns an error, one panics
AppHandlers == { <<Fn("h", "ok")>>, <<Fn("h", "err")>>, <<Fn("h", "panic")>> }

AppRoutePath == <<"/", ":", "x">>

\* the requests: GET /a matches the route, GET /a/a matches nothing
AppReqPaths == { <<"/", "a">>, <<"/", "a", "/", "a">> }

InitServe ==
    /\ InitRouter
    /\ InitFind
    /\ run = IdleRun
    /\ sink = NewSlice
    /\ sinkLog = <<>>
    /\ calls = NoCalls
    /\ InitApp
    /\ groups = NoGroups

NextApp ==
    \/ \E m \in UsePool : Use(m)
    \/ \E h \in AppHandlers : AppAdd(AppRoutePath, h)
    \/ \E r \in Reqs, p \in AppReqPaths : ServeStart(r, "GET", p)
    \/ \E r \in Reqs : ServeCheck(r)
    \/ \E r \in Reqs : Setup(r)
    \/ \E r \in Reqs, c \in Ctxs : Acquire(r, c)
    \/ \E r \in Reqs : Handle(r)
    \/ \E r \in Reqs : GoRun(r)
    \/ \E r \in Reqs : SelectDone(r)
    \/ \E r \in Reqs : SelectTimeout(r)
    \/ \E r \in Reqs : ServeFinish(r)

SpecApp == InitServe /\ [][NextApp]_vars

(***************************************************************************)
(* The specification of the segment rules: one route of a single segment   *)
(* is registered in a new router                                           *)
(***************************************************************************)
\* the characters of a segment: the three markers, the closing brace and a letter
SegChars == {":", "{", "}", "*", "a"}

\* every non-empty segment of at most MaxSegLen characters
Segments == UNION { [1..k -> SegChars] : k \in 1..MaxSegLen }

\* the first registration of a router: GET "/" followed by the segment
SegAdd(seg) ==
    /\ history = <<>>
    /\ Add("GET", <<Slash>> \o seg, FreshHandler, <<>>)

InitSeg ==
    /\ InitRouter
    /\ InitFind
    /\ run = IdleRun
    /\ sink = NewSlice
    /\ sinkLog = <<>>
    /\ calls = NoCalls
    /\ InitApp
    /\ groups = NoGroups

NextSeg == \E seg \in Segments : SegAdd(seg)

SpecSeg == InitSeg /\ [][NextSeg]_vars

(***************************************************************************)
(* The specification of groups: groups are made from the App and from      *)
(* each other, given middlewares, and routes are registered through them   *)
(* and requested                                                           *)
(***************************************************************************)
GroupPrefixes == { <<"/", "a">>, <<"/", "b">> }

\* the paths given to Group.Add: a literal and a parameter
GroupPaths == { <<"/", "c">>, <<"/", ":", "x">> }

GroupMwPool == { Fn("A", "pass"), Fn("B", "pass") }

\* every registration has a handler of its own, named by the number of the call
HandlerNames == <<"h1", "h2", "h3", "h4">>

GroupHandler == <<Fn(HandlerNames[Len(history) + 1], "ok")>>

\* the requests: /a/c, /a/b, /a/b/c
GroupReqPaths ==
    { <<"/", "a", "/", "c">>, <<"/", "a", "/", "b">>,
      <<"/", "a", "/", "b", "/", "c">> }

InitGroup ==
    /\ InitRouter
    /\ InitFind
    /\ run = IdleRun
    /\ sink = NewSlice
    /\ sinkLog = <<>>
    /\ calls = NoCalls
    /\ InitApp
    /\ groups = NoGroups

NextGroup ==
    \/ \E p \in GroupPrefixes : AppGroup(p)
    \/ \E g \in 1..Len(groups), p \in GroupPrefixes : GroupGroup(g, p)
    \/ \E g \in 1..Len(groups), m \in GroupMwPool : GroupUse(g, m)
    \/ \E g \in 1..Len(groups), m \in Methods, p \in GroupPaths :
           GroupAdd(g, m, p, GroupHandler, <<>>)
    \/ \E m \in Methods, p \in GroupReqPaths : GroupInvoke(m, p)
    \/ RunEnd

SpecGroup == InitGroup /\ [][NextGroup]_vars

(***************************************************************************)
(* The specification of router-level middlewares: Use and Add are called   *)
(* on the router in any order and the registered routes are requested      *)
(***************************************************************************)
\* the middlewares given to TrieRouter.Use
RouterMwPool == { Fn("G1", "pass"), Fn("G2", "pass") }

\* the middlewares a route is registered with
OwnMwLists == { <<>>, <<Fn("A", "pass")>> }

UsePaths == { <<"/", "a">>, <<"/", "b">> }

\* every registration has a handler of its own, named by the number of the Add
UseHandler == <<Fn(HandlerNames[Len(AddCalls(history)) + 1], "ok")>>

InitUse ==
    /\ InitRouter
    /\ InitFind
    /\ run = IdleRun
    /\ sink = NewSlice
    /\ sinkLog = <<>>
    /\ calls = NoCalls
    /\ InitApp
    /\ groups = NoGroups

NextUse ==
    \/ \E m \in RouterMwPool : RouterUse(m)
    \/ \E p \in UsePaths, l \in OwnMwLists : RouterAdd("GET", p, UseHandler, l)
    \/ \E p \in UsePaths : GroupInvoke("GET", p)
    \/ RunEnd

SpecUse == InitUse /\ [][NextUse]_vars

(***************************************************************************)
(* Vocabulary of the properties                                            *)
(***************************************************************************)
\* the non-empty "/"-separated segments of a path, in order
RECURSIVE SegsFrom(_, _)
SegsFrom(p, cur) ==
    LET flush == IF cur = <<>> THEN <<>> ELSE <<cur>>
    IN  IF p = <<>> THEN flush
        ELSE IF Head(p) = "/" THEN flush \o SegsFrom(Tail(p), <<>>)
        ELSE SegsFrom(Tail(p), Append(cur, Head(p)))

Segs(p) == SegsFrom(p, <<>>)

\* the text of s up to its first "/"
LeadSeg(s) ==
    SubSeq(s, 1, CHOOSE k \in 0..Len(s) :
                     /\ \A j \in 1..k : s[j] # "/"
                     /\ k = Len(s) \/ s[k + 1] = "/")

\* the text of s after the "/" that ends its first segment
AfterLeadSeg(s) == SubSeq(s, Len(LeadSeg(s)) + 2, Len(s))

\* Find is about to consume a non-empty segment at node n
ConsumesSegment == pc = "loop" /\ LeadSeg(searchPath) # <<>>

\* Add(method, path, ...) was called and returned nil
Registered(method, path) ==
    \E i \in 1..Len(history) :
        /\ history[i].method = method
        /\ history[i].path = path
        /\ history[i].err = NilErr

\* Find has returned a route
Matched == pc = "done" /\ result.route # NilNode /\ result.err = NilErr

P_Root == <<"/">>
P_A == <<"/", "a">>
P_AA == <<"a", "/", "/", "a", "/">>
P_A_px == <<"/", "a", "/", ":", "x">>
P_A_py == <<"/", "a", "/", "{", "y", "}">>
P_A_wx == <<"/", "a", "/", "*", "x">>
P_px_py == <<"/", ":", "x", "/", ":", "y">>
P_wx == <<"/", "*", "x">>
P_wy_a == <<"/", "*", "y", "/", "a">>

(***************************************************************************)
(* C1: literal beats parameter                                             *)
(***************************************************************************)
C1_Step ==
    (ConsumesSegment /\ nodes[n].paramNode # NilNode) =>
        LET seg == LeadSeg(searchPath)
        IN  IF seg \in DOMAIN nodes[n].children
            THEN /\ pc' = "loop"
                 /\ n' = nodes[n].children[seg]
                 /\ Params' = Params
            ELSE /\ pc' = "loop"
                 /\ n' = nodes[n].paramNode
                 /\ Params' = Append(Params, Param(nodes[n].paramName, seg))

C1_Example ==
    \A m \in Methods :
        (pc = "done" /\ fMethod = m /\ Registered(m, P_AA) /\ Registered(m, P_A_px)) =>
            /\ Segs(fPath) = <<<<"a">>, <<"a">>>> =>
                   /\ Matched
                   /\ nodes[result.route].Path = <<"/", "a", "/", "/", "a", "/">>
                   /\ Params = <<>>
            /\ Segs(fPath) = <<<<"a">>, <<"a", "a">>>> =>
                   /\ Matched
                   /\ nodes[result.route].Path = P_A_px
                   /\ Params = <<Param(<<"x">>, <<"a", "a">>)>>

\* C1: at a node that has a parameter child, Find descends into the literal child
\* keyed by the current segment when there is one, recording nothing, and into the
\* parameter child otherwise, recording (paramName, segment); with "a//a/" and
\* "/a/:x" registered in either order, a request for a/a returns the literal route
\* and a request for a/aa the parameter route with x = "aa".
C1_LiteralBeatsParam == [][C1_Step]_vars /\ []C1_Example

\* the literal route was registered after the parameter route, and wins
C1_Witness ==
    /\ Len(history) = 2
    /\ history[1].path = P_A_px /\ history[1].err = NilErr
    /\ history[2].path = P_AA /\ history[2].err = NilErr
    /\ history[1].method = history[2].method
    /\ pc = "done" /\ fMethod = history[1].method
    /\ fPath = <<"/", "a", "/", "a">>
    /\ Matched /\ nodes[result.route].Handler = history[2].handler
    /\ Params = <<>>

(***************************************************************************)
(* C2: the wildcard is the last resort                                     *)
(***************************************************************************)
\* this step ends the walk in the wildcard branch of node n
TakesWildcard ==
    /\ pc' = "done"
    /\ Len(Params') = Len(Params) + 1
    /\ Params'[Len(Params')].Key = nodes[n].catchAllName
    /\ result' \in {Found(nodes[n].catchAllNode), NotFound(RouteNotFoundErr)}

C2_Step ==
    (ConsumesSegment /\ nodes[n].catchAllNode # NilNode) =>
        LET seg == LeadSeg(searchPath)
        IN  /\ TakesWildcard =>
                   seg \notin DOMAIN nodes[n].children /\ nodes[n].paramNode = NilNode
            /\ seg \in DOMAIN nodes[n].children =>
                   /\ pc' = "loop" /\ result' = NoResult
                   /\ n' = nodes[n].children[seg]
            /\ (seg \notin DOMAIN nodes[n].children /\ nodes[n].paramNode # NilNode) =>
                   /\ pc' = "loop" /\ result' = NoResult
                   /\ n' = nodes[n].paramNode

C2_Example ==
    \A m \in Methods :
        (pc = "done" /\ fMethod = m) =>
            /\ (Registered(m, P_wx) /\ Registered(m, P_A) /\ Segs(fPath) = <<<<"a">>>>) =>
                   Matched /\ nodes[result.route].Path = P_A /\ Params = <<>>
            /\ (Registered(m, P_A_wx) /\ Registered(m, P_A_px)
                    /\ Segs(fPath) = <<<<"a">>, <<"a", "a">>>>) =>
                   /\ Matched /\ nodes[result.route].Path = P_A_px
                   /\ Params = <<Param(<<"x">>, <<"a", "a">>)>>

\* C2: at a node that has a wildcard child, a step that consumes a non-empty segment
\* takes the wildcard branch only if the node has no literal child keyed by the
\* segment and no parameter child; otherwise the walk goes on in the literal child,
\* or else in the parameter child, whatever the order of registration.
C2_WildcardLastResort == [][C2_Step]_vars /\ []C2_Example

\* the wildcard was registered first, the parameter route second, and the
\* parameter route is the one returned
C2_Witness ==
    /\ Len(history) = 2
    /\ history[1].path = P_A_wx /\ history[1].err = NilErr
    /\ history[2].path = P_A_px /\ history[2].err = NilErr
    /\ history[1].method = history[2].method
    /\ pc = "done" /\ fMethod = history[1].method
    /\ fPath = <<"a", "/", "a", "a">>
    /\ Matched /\ nodes[result.route].Handler = history[2].handler
    /\ nodes[nodes[root[fMethod]].children[<<"a">>]].catchAllNode # NilNode
    /\ Params = <<Param(<<"x">>, <<"a", "a">>)>>

(***************************************************************************)
(* C3: wildcard capture completeness                                       *)
(***************************************************************************)
C3_Step ==
    /\ (/\ ConsumesSegment
        /\ LeadSeg(searchPath) \notin DOMAIN nodes[n].children
        /\ nodes[n].paramNode = NilNode
        /\ nodes[n].catchAllNode # NilNode) =>
           LET seg == LeadSeg(searchPath)
               remaining == AfterLeadSeg(searchPath)
               value == IF remaining = <<>> THEN seg ELSE seg \o <<"/">> \o remaining
           IN  Params' = Append(Params, Param(nodes[n].catchAllName, value))
    /\ (/\ pc = "loop" /\ searchPath = <<>>
        /\ nodes[n].Handler = NilHandler
        /\ nodes[n].catchAllNode # NilNode) =>
           Params' = Append(Params, Param(nodes[n].catchAllName, <<>>))

C3_Example ==
    \A m \in Methods :
        (pc = "done" /\ fMethod = m) =>
            /\ (/\ Registered(m, P_A_wx)
                /\ ~Registered(m, P_A) /\ ~Registered(m, P_A_px) /\ ~Registered(m, P_A_py)) =>
                   /\ fPath = <<"/", "a", "/">> =>
                          /\ Matched /\ nodes[result.route].Path = P_A_wx
                          /\ Params = <<Param(<<"x">>, <<>>)>>
                   /\ fPath = <<"a", "/", "a", "a">> =>
                          /\ Matched /\ nodes[result.route].Path = P_A_wx
                          /\ Params = <<Param(<<"x">>, <<"a", "a">>)>>
            /\ (/\ Registered(m, P_wx)
                /\ DOMAIN nodes[root[m]].children = {}
                /\ nodes[root[m]].paramNode = NilNode
                /\ fPath = <<"/", "a", "/", "a">>) =>
                   /\ Matched /\ nodes[result.route].Path = P_wx
                   /\ Params = <<Param(<<"x">>, <<"a", "/", "a">>)>>

\* C3: a step that takes the wildcard branch records exactly one entry under the
\* wildcard's name, whose value is the current segment joined with "/" to the
\* rest of the unconsumed path, and the empty string when the path ended at the
\* wildcard's parent; with "/*x" registered, /a/a yields x = "a/a", and with
\* "/a/*x" registered, /a/ yields x = "".
C3_WildcardCapture == [][C3_Step]_vars /\ []C3_Example

C3_Witness ==
    /\ pc = "done" /\ Matched
    /\ fPath = <<"/", "a", "/", "a">>
    /\ nodes[result.route].Path = P_wx
    /\ Params = <<Param(<<"x">>, <<"a", "/", "a">>)>>

(***************************************************************************)
(* Route templates, as the properties read them                            *)
(***************************************************************************)
\* the kind of a registered segment and its name (for a literal, its text)
SegKind(seg) ==
    IF seg[1] = ":" THEN <<"param", Tail(seg)>>
    ELSE IF Len(seg) >= 2 /\ seg[1] = "{" /\ seg[Len(seg)] = "}"
    THEN <<"param", SubSeq(seg, 2, Len(seg) - 1)>>
    ELSE IF seg[1] = "*" THEN <<"wildcard", Tail(seg)>>
    ELSE <<"literal", seg>>

Tmpl(path) ==
    LET segs == Segs(path)
    IN  [i \in 1..Len(segs) |-> SegKind(segs[i])]

IsLiteralPath(path) == \A i \in 1..Len(Tmpl(path)) : Tmpl(path)[i][1] = "literal"

\* the node of heap ns that the first k segments of template t lead to from cur,
\* NilNode when there is none
RECURSIVE NodeAt(_, _, _, _)
NodeAt(ns, cur, t, k) ==
    IF cur = NilNode THEN NilNode
    ELSE IF k = 0 THEN cur
    ELSE LET prev == NodeAt(ns, cur, t, k - 1)
         IN  IF prev = NilNode THEN NilNode
             ELSE IF t[k][1] = "param" THEN ns[prev].paramNode
             ELSE IF t[k][1] = "wildcard" THEN ns[prev].catchAllNode
             ELSE IF t[k][2] \in DOMAIN ns[prev].children THEN ns[prev].children[t[k][2]]
             ELSE NilNode

\* the positions of template t at which the trie already has a parameter child
\* (a wildcard child) under another name
ConflictsOf(ns, rt, method, t) ==
    { i \in 1..Len(t) :
        LET nd == NodeAt(ns, rt[method], t, i - 1)
        IN  /\ nd # NilNode
            /\ \/ /\ t[i][1] = "param"
                  /\ ns[nd].paramNode # NilNode
                  /\ ns[nd].paramName # t[i][2]
               \/ /\ t[i][1] = "wildcard"
                  /\ ns[nd].catchAllNode # NilNode
                  /\ ns[nd].catchAllName # t[i][2] }

SetMin(S) == CHOOSE x \in S : \A y \in S : x <= y

SetMax(S) == CHOOSE x \in S : \A y \in S : y <= x

\* this step is a call of Add; LastCall is the call and its outcome
IsAddStep == Len(history') = Len(history) + 1

LastCall == history'[Len(history')]

(***************************************************************************)
(* C4: conflict detection                                                  *)
(***************************************************************************)
C4_Step ==
    IsAddStep =>
        LET t == Tmpl(LastCall.path)
            cf == ConflictsOf(nodes, root, LastCall.method, t)
        IN  cf # {} =>
                LET i == SetMin(cf)
                    nd == NodeAt(nodes, root[LastCall.method], t, i - 1)
                IN  /\ LastCall.err =
                           IF t[i][1] = "param"
                           THEN <<"param name conflict", nodes[nd].paramName, t[i][2]>>
                           ELSE <<"wildcard name conflict", nodes[nd].catchAllName, t[i][2]>>
                    /\ \A k \in 1..Len(nodes) : nodes'[k] = nodes[k]

C4_Example ==
    \A m \in Methods :
        \A i, j \in 1..Len(history) :
            (i < j /\ history[i].method = m /\ history[j].method = m
                   /\ history[i].err = NilErr) =>
                /\ (history[i].path = P_A_px /\ history[j].path = P_A_py) =>
                       /\ history[j].err = <<"param name conflict", <<"x">>, <<"y">>>>
                       /\ (pc = "done" /\ fMethod = m
                               /\ Segs(fPath) = <<<<"a">>, <<"a", "a">>>>) =>
                              /\ Matched
                              /\ nodes[result.route].Handler =
                                     history[SetMax({k \in 1..Len(history) :
                                         /\ history[k].method = m
                                         /\ history[k].path = P_A_px})].handler
                              /\ Params = <<Param(<<"x">>, <<"a", "a">>)>>
                /\ (history[i].path = P_wx /\ history[j].path = P_wy_a) =>
                       /\ history[j].err = <<"wildcard name conflict", <<"x">>, <<"y">>>>
                       /\ (pc = "done" /\ fMethod = m /\ ~Registered(m, P_px_py)
                               /\ Segs(fPath) = <<<<"a", "a">>>>) =>
                              /\ Matched
                              /\ nodes[result.route].Path = P_wx
                              /\ Len(Params) = 1
                              /\ Params[1].Key = <<"x">>
                              /\ Segs(Params[1].Value) = <<<<"a", "a">>>>

\* C4: an Add whose path reaches a node that already has a parameter child (a
\* wildcard child) under another name returns the conflict error naming the
\* existing and the requested name and changes no existing node; after "/a/:x",
\* Add of "/a/{y}" fails and a request for a/aa still matches the first route
\* with x = "aa".
C4_ConflictDetection == [][C4_Step]_vars /\ []C4_Example

C4_Witness ==
    /\ Len(history) = 2
    /\ history[1].path = P_A_px /\ history[1].err = NilErr
    /\ history[2].path = P_A_py /\ history[2].method = history[1].method
    /\ history[2].err = <<"param name conflict", <<"x">>, <<"y">>>>
    /\ pc = "done" /\ fMethod = history[1].method
    /\ fPath = <<"a", "/", "a", "a">>
    /\ Matched /\ nodes[result.route].Handler = history[1].handler
    /\ Params = <<Param(<<"x">>, <<"a", "a">>)>>

(***************************************************************************)
(* C5: last registration wins                                              *)
(***************************************************************************)
\* the shape of a node: everything but its route
Shape(nd) == <<nd.children, nd.paramNode, nd.paramName, nd.catchAllNode, nd.catchAllName>>

C5_Step ==
    (/\ IsAddStep
     /\ LastCall.err = NilErr
     /\ \E i \in 1..Len(history) :
            /\ history[i].err = NilErr
            /\ history[i].method = LastCall.method
            /\ history[i].path = LastCall.path) =>
        /\ Len(nodes') = Len(nodes)
        /\ root' = root
        /\ \A k \in 1..Len(nodes) : Shape(nodes'[k]) = Shape(nodes[k])

\* the successful registrations under the request's method at the request's segments
RegsAtRequest ==
    { i \in 1..Len(history) :
        /\ history[i].err = NilErr
        /\ history[i].method = fMethod
        /\ Segs(history[i].path) = Segs(fPath) }

C5_Inv ==
    (pc = "done" /\ Cardinality(RegsAtRequest) >= 2) =>
        /\ Matched
        /\ nodes[result.route].Handler = history[SetMax(RegsAtRequest)].handler

\* C5: an Add of a (method, path) that is already registered creates no node and
\* changes no node's children, and a Find for a path registered twice or more
\* returns the handler of the last of these registrations.
C5_LastRegistrationWins == [][C5_Step]_vars /\ []C5_Inv

C5_Witness ==
    /\ Len(history) = 2
    /\ history[1].path = P_A /\ history[2].path = P_A
    /\ history[1].method = history[2].method
    /\ history[1].handler # history[2].handler
    /\ Len(nodes) = 2
    /\ pc = "done" /\ fMethod = history[1].method /\ fPath = <<"/", "a">>
    /\ Matched /\ nodes[result.route].Handler = history[2].handler

(***************************************************************************)
(* C6: method isolation                                                    *)
(***************************************************************************)
\* what a call of Find with an empty sink gives: the error, the sink and the route
Outcome(ns, rt, method, path) ==
    LET f == FindCall(ns, rt, method, path, <<>>)
    IN  [err |-> f.result.err, Params |-> f.Params,
         route |-> IF f.result.route = NilNode THEN <<>>
                   ELSE <<f.result.route, ns[f.result.route]>>]

C6_Step ==
    IsAddStep =>
        \A m \in Methods \ {LastCall.method} :
            \A p \in ReqPaths :
                Outcome(nodes', root', m, p) = Outcome(nodes, root, m, p)

C6_Inv ==
    /\ (pc = "done" /\ \A i \in 1..Len(history) : history[i].method # fMethod) =>
           result.route = NilNode /\ result.err # NilErr
    /\ (pc = "done" /\ fMethod = "POST" /\ fPath = P_A /\ Registered("POST", P_A)) =>
           Matched

\* C6: an Add under one method changes the outcome of no Find under another
\* method, and a Find under a method that no Add ever named fails for every path;
\* with "/a" registered under POST only, Find(GET, /a) fails and Find(POST, /a)
\* succeeds.
C6_MethodIsolation == [][C6_Step]_vars /\ []C6_Inv

C6_Witness ==
    /\ Len(history) = 2
    /\ \A i \in 1..2 : history[i].method = "POST" /\ history[i].err = NilErr
    /\ history[1].path = P_A
    /\ pc = "done" /\ fMethod = "GET" /\ fPath = P_A
    /\ result = NotFound(MethodNotFoundErr)

(***************************************************************************)
(* C7: multi-parameter composition                                         *)
(***************************************************************************)
\* the positions of the parameter and wildcard segments of template t
DynPositions(t) == { i \in 1..Len(t) : t[i][1] # "literal" }

\* the j-th of them
DynPosition(t, j) ==
    CHOOSE i \in DynPositions(t) : Cardinality({k \in DynPositions(t) : k < i}) = j - 1

C7_Inv ==
    (Matched /\ hasCtx) =>
        LET t == Tmpl(nodes[result.route].Path)
            s == Segs(fPath)
        IN  /\ Len(Params) = Cardinality(DynPositions(t))
            /\ \A j \in 1..Len(Params) :
                   LET i == DynPosition(t, j)
                   IN  /\ Params[j].Key = t[i][2]
                       /\ t[i][1] = "param" => Params[j].Value = s[i]
                       /\ t[i][1] = "wildcard" =>
                              Segs(Params[j].Value) = SubSeq(s, i, Len(s))

C7_Example ==
    \A m \in Methods :
        (pc = "done" /\ fMethod = m /\ Registered(m, P_px_py)
             /\ fPath = <<"a", "a", "/", "a">>) =>
            /\ Matched
            /\ Params = <<Param(<<"x">>, <<"a", "a">>), Param(<<"y">>, <<"a">>)>>

\* C7: after a successful Find into an empty sink, the sink holds one entry per
\* parameter or wildcard segment of the matched route, in the order of the path:
\* the entry's key is the segment's name and its value the request's segment at
\* that position (for a wildcard, the rest of the request's segments); for
\* "/:x/:y" and the request aa/a the sink is <<(x, "aa"), (y, "a")>>.
C7_MultiParam == C7_Inv /\ C7_Example

C7_Witness ==
    /\ pc = "done" /\ Matched
    /\ fPath = <<"a", "a", "/", "a">>
    /\ nodes[result.route].Path = P_px_py
    /\ Params = <<Param(<<"x">>, <<"a", "a">>), Param(<<"y">>, <<"a">>)>>

(***************************************************************************)
(* C8: a reached node without a route                                      *)
(***************************************************************************)
\* Find has consumed every segment and stands on a node without a route
AtEndWithoutRoute == pc = "loop" /\ searchPath = <<>> /\ nodes[n].Handler = NilHandler

\* C8 as claimed: whenever Find has consumed every segment and stands on a node
\* on which no route was registered, it returns NotFound and no route.
C8_Original == [][AtEndWithoutRoute => result' = NotFound(RouteNotFoundErr)]_vars

C8_Step ==
    (/\ AtEndWithoutRoute
     /\ \/ nodes[n].catchAllNode = NilNode
        \/ nodes[nodes[n].catchAllNode].Handler = NilHandler) =>
        pc' = "done" /\ result' = NotFound(RouteNotFoundErr)

C8_WildcardStep ==
    (/\ AtEndWithoutRoute
     /\ nodes[n].catchAllNode # NilNode
     /\ nodes[nodes[n].catchAllNode].Handler # NilHandler) =>
        pc' = "done" /\ result' = Found(nodes[n].catchAllNode)

C8_Example ==
    \A m \in Methods :
        (/\ pc = "done" /\ fMethod = m
         /\ Registered(m, P_A_px)
         /\ \A i \in 1..Len(history) : history[i].method = m => history[i].path = P_A_px
         /\ Segs(fPath) = <<<<"a">>>>) =>
            result = NotFound(RouteNotFoundErr)

\* C8 as amended: when Find has consumed every segment and stands on a node
\* without a route, it returns NotFound and no route unless that node has a
\* wildcard child that carries a route, and then it returns the wildcard's route;
\* with only "/a/:x" registered, a request for /a is NotFound.
C8_ReachedNodeWithoutRoute == [][C8_Step /\ C8_WildcardStep]_vars /\ []C8_Example

C8_Witness ==
    /\ Len(history) = 1 /\ history[1].path = P_A_px /\ history[1].err = NilErr
    /\ pc = "done" /\ fMethod = history[1].method /\ fPath = <<"/", "a">>
    /\ n = nodes[root[fMethod]].children[<<"a">>]
    /\ result = NotFound(RouteNotFoundErr)

(***************************************************************************)
(* C9: the root path                                                       *)
(***************************************************************************)
C9_Step ==
    (IsAddStep /\ LastCall.err = NilErr /\ Segs(LastCall.path) = <<>>) =>
        LET r == root'[LastCall.method]
        IN  /\ r # NilNode
            /\ nodes'[r].Handler = LastCall.handler
            /\ nodes'[r].Path = <<"/">>
            /\ nodes'[r].Method = LastCall.method
            /\ \A k \in 1..Len(nodes) : k # r => nodes'[k] = nodes[k]
            /\ Len(nodes') = IF root[LastCall.method] = NilNode
                             THEN Len(nodes) + 1 ELSE Len(nodes)

C9_Inv ==
    (/\ pc = "done" /\ Segs(fPath) = <<>>
     /\ root[fMethod] # NilNode
     /\ nodes[root[fMethod]].Handler # NilHandler) =>
        /\ result = Found(root[fMethod])
        /\ n = root[fMethod]
        /\ Params = <<>>

\* C9: a successful Add of "/" or "" stores the route on the root node of its
\* method, and a Find whose path has no segment returns the root's own route when
\* the root carries one, without leaving the root and without recording anything.
C9_RootPath == [][C9_Step]_vars /\ []C9_Inv

\* the root carries a route and has a wildcard child with a route; "/" is the root's
C9_Witness ==
    /\ Len(history) = 2
    /\ history[1].path = P_wx /\ history[1].err = NilErr
    /\ history[2].path = <<>> /\ history[2].err = NilErr
    /\ history[1].method = history[2].method
    /\ pc = "done" /\ fMethod = history[1].method /\ fPath = <<"/">>
    /\ result = Found(root[fMethod])
    /\ nodes[result.route].Handler = history[2].handler
    /\ Params = <<>>

(***************************************************************************)
(* C10: Add and Find normalize paths the same way                          *)
(***************************************************************************)
\* the path that is "/" followed by the segments joined with "/"
RECURSIVE JoinSegs(_)
JoinSegs(segs) ==
    IF segs = <<>> THEN <<>>
    ELSE IF Len(segs) = 1 THEN segs[1]
    ELSE segs[1] \o <<"/">> \o JoinSegs(Tail(segs))

CanonPath(path) == <<"/">> \o JoinSegs(Segs(path))

C10_Step ==
    (IsAddStep /\ LastCall.err = NilErr /\ IsLiteralPath(LastCall.path)) =>
        \A q \in ReqPaths \cup {LastCall.path} :
            Segs(q) = Segs(LastCall.path) =>
                LET f == FindCall(nodes', root', LastCall.method, q, <<>>)
                IN  /\ f.result.route # NilNode /\ f.result.err = NilErr
                    /\ nodes'[f.result.route].Handler = LastCall.handler
                    /\ f.Params = <<>>

C10_Inv ==
    (pc = "done" /\ hasCtx) =>
        LET f == FindCall(nodes, root, fMethod, CanonPath(fPath), <<>>)
        IN  /\ f.result = result
            /\ (Matched /\ \A i \in 1..Len(Tmpl(nodes[result.route].Path)) :
                               Tmpl(nodes[result.route].Path)[i][1] # "wildcard") =>
                   f.Params = Params

\* C10: right after a successful Add(m, p, h) of a literal path, Find(m, q) returns
\* h for p and for every request path q with the segments of p, whatever its
\* leading, trailing and doubled slashes; and every Find returns what Find returns
\* for the path "/" + segments joined by "/", with the same sink when the route
\* has no wildcard.
C10_SameNormalization == [][C10_Step]_vars /\ []C10_Inv

C10_Witness ==
    /\ Len(history) = 2
    /\ history[2].path = P_AA /\ history[2].err = NilErr
    /\ pc = "done" /\ fMethod = history[2].method
    /\ fPath = <<"a", "/", "/", "a">>
    /\ Matched /\ nodes[result.route].Handler = history[2].handler

(***************************************************************************)
(* C11: the middleware onion                                               *)
(***************************************************************************)
\* the events of one invocation of handler h wrapped in mws[i..]: each
\* middleware is entered, then what is inside it, then it is left; a
\* middleware that does not call next has nothing inside it
RECURSIVE Onion(_, _, _)
Onion(mws, h, i) ==
    IF i > Len(mws) THEN <<<<"enter", h.name>>, <<"leave", h.name>>>>
    ELSE IF CallsNext(mws[i].kind)
    THEN <<<<"enter", mws[i].name>>>> \o Onion(mws, h, i + 1)
             \o <<<<"leave", mws[i].name>>>>
    ELSE <<<<"enter", mws[i].name>>, <<"leave", mws[i].name>>>>

IsPrefix(s, t) == Len(s) <= Len(t) /\ SubSeq(t, 1, Len(s)) = s

\* how many times the function called name was entered
Entries(trace, name) ==
    Cardinality({ k \in 1..Len(trace) : trace[k] = <<"enter", name>> })

\* the registration whose handler is stored on the route
StoredReg == history[Len(history)]

\* every function of the list before position i calls next
AllCallNext(mws, i) == \A j \in 1..(i - 1) : CallsNext(mws[j].kind)

C11_Order ==
    run.mode # "idle" =>
        LET expected == Onion(StoredReg.middlewares, StoredReg.handler[1], 1)
        IN  /\ IsPrefix(run.trace, expected)
            /\ run.mode = "done" => run.trace = expected

C11_Once ==
    run.mode = "done" =>
        LET mws == StoredReg.middlewares
            h == StoredReg.handler[1]
        IN  /\ \A i \in 1..Len(mws) :
                   Entries(run.trace, mws[i].name) = IF AllCallNext(mws, i) THEN 1 ELSE 0
            /\ Entries(run.trace, h.name) = IF AllCallNext(mws, Len(mws) + 1) THEN 1 ELSE 0
            /\ run.ret = IF AllCallNext(mws, Len(mws) + 1) THEN ReturnOf(h.kind) ELSE "nil"

\* C11: one invocation of the handler stored for a route registered with
\* [m1, ..., mk] enters m1, then m2, ..., then mk, then the handler, and leaves
\* in the reverse order; a middleware that calls next is entered exactly once,
\* and nothing after a middleware that does not call next is entered at all.
C11_MiddlewareOnion == C11_Order /\ C11_Once

C11_Witness ==
    /\ run.mode = "done"
    /\ StoredReg.middlewares = <<Fn("B", "pass"), Fn("A", "pass")>>
    /\ run.trace = << <<"enter", "B">>, <<"enter", "A">>, <<"enter", "h">>,
                      <<"leave", "h">>, <<"leave", "A">>, <<"leave", "B">> >>

(***************************************************************************)
(* C12: a wildcard is terminal at match time                               *)
(***************************************************************************)
\* the children of the node at address k
ChildrenOf(ns, k) ==
    ({ ns[k].children[c] : c \in DOMAIN ns[k].children }
        \cup {ns[k].paramNode, ns[k].catchAllNode}) \ {NilNode}

\* the nodes reachable from the set S in at most d steps
RECURSIVE ReachableFrom(_, _, _)
ReachableFrom(ns, S, d) ==
    IF d = 0 THEN S
    ELSE ReachableFrom(ns, S \cup UNION { ChildrenOf(ns, k) : k \in S }, d - 1)

WildcardChildren(ns) == { ns[k].catchAllNode : k \in 1..Len(ns) } \ {NilNode}

\* the nodes strictly below some wildcard child
BelowWildcard(ns) ==
    ReachableFrom(ns, UNION { ChildrenOf(ns, w) : w \in WildcardChildren(ns) }, Len(ns))

\* Find stands on node n and the wildcard child is the branch the code takes:
\* a segment that has no literal child and no parameter child, or the end of
\* the path on a node without a route
EntersWildcard ==
    /\ pc = "loop" /\ n # NilNode
    /\ nodes[n].catchAllNode # NilNode
    /\ \/ /\ ConsumesSegment
          /\ LeadSeg(searchPath) \notin DOMAIN nodes[n].children
          /\ nodes[n].paramNode = NilNode
       \/ searchPath = <<>> /\ nodes[n].Handler = NilHandler

C12_Step ==
    /\ EntersWildcard =>
           /\ pc' = "done"
           /\ result' = IF nodes[nodes[n].catchAllNode].Handler # NilHandler
                        THEN Found(nodes[n].catchAllNode)
                        ELSE NotFound(RouteNotFoundErr)
    /\ pc' = "loop" => n' \notin WildcardChildren(nodes') \cup BelowWildcard(nodes')

C12_Inv ==
    /\ result.route \notin BelowWildcard(nodes)
    /\ \A i \in 1..Len(history) :
           LET t == Tmpl(history[i].path)
           IN  (/\ history[i].err = NilErr
                /\ \E k \in 1..(Len(t) - 1) : t[k][1] = "wildcard"
                /\ Matched /\ fMethod = history[i].method) =>
                   /\ nodes[result.route].Path # history[i].path
                   /\ nodes[result.route].Handler # history[i].handler

\* C12: Find never descends below a wildcard child: the step that takes the
\* wildcard branch ends the walk with the wildcard child's route or NotFound,
\* Find's current node is never a wildcard child or a node below one, and a
\* route registered on a path that continues after a wildcard segment (as
\* /*y/a) is never returned.
C12_WildcardTerminal == [][C12_Step]_vars /\ []C12_Inv

C12_Witness ==
    /\ Len(history) = 1 /\ history[1].path = P_wy_a /\ history[1].err = NilErr
    /\ BelowWildcard(nodes) # {}
    /\ pc = "done" /\ fMethod = history[1].method /\ fPath = <<"/", "a", "/", "a">>
    /\ result = NotFound(RouteNotFoundErr)
    /\ Params = <<Param(<<"y">>, <<"a", "/", "a">>)>>

(***************************************************************************)
(* C13: the shape of the trie                                              *)
(***************************************************************************)
\* the addresses of the root nodes
Roots(rt) == { rt[m] : m \in DOMAIN rt } \ {NilNode}

\* the edges of the heap: <<parent, kind, child>>
Edges(ns) ==
    UNION { { <<k, "static", ns[k].children[c]>> : c \in DOMAIN ns[k].children }
              \cup (IF ns[k].paramNode # NilNode
                    THEN {<<k, "param", ns[k].paramNode>>} ELSE {})
              \cup (IF ns[k].catchAllNode # NilNode
                    THEN {<<k, "wildcard", ns[k].catchAllNode>>} ELSE {})
            : k \in 1..Len(ns) }

\* every node that was ever created is a root or the child of exactly one
\* node: no parameter or wildcard child was ever replaced by a second one
C13_OneChild ==
    LET edges == Edges(nodes)
        roots == Roots(root)
    IN  \A k \in 1..Len(nodes) :
            Cardinality({ e \in edges : e[3] = k }) = IF k \in roots THEN 0 ELSE 1

\* the calls of Add, in history, whose walk arrived at node nd with a segment
\* of the given kind
ArrivalsAt(nd, kind) ==
    { j \in 1..Len(history) :
        LET t == Tmpl(history[j].path)
            m == history[j].method
            cf == ConflictsOf(nodes, root, m, t)
        IN  \E k \in 1..Len(t) :
                /\ t[k][1] = kind
                /\ \A i \in cf : i >= k
                /\ NodeAt(nodes, root[m], t, k - 1) = nd }

\* the name the call history[j] gave for the child of that kind of node nd
NameGivenAt(j, nd, kind) ==
    LET t == Tmpl(history[j].path)
        k == CHOOSE k \in 1..Len(t) :
                 /\ t[k][1] = kind
                 /\ NodeAt(nodes, root[history[j].method], t, k - 1) = nd
    IN  t[k][2]

C13_FirstName ==
    \A nd \in 1..Len(nodes) :
        /\ nodes[nd].paramNode # NilNode =>
               LET arrivals == ArrivalsAt(nd, "param")
               IN  /\ arrivals # {}
                   /\ nodes[nd].paramName = NameGivenAt(SetMin(arrivals), nd, "param")
        /\ nodes[nd].catchAllNode # NilNode =>
               LET arrivals == ArrivalsAt(nd, "wildcard")
               IN  /\ arrivals # {}
                   /\ nodes[nd].catchAllName =
                          NameGivenAt(SetMin(arrivals), nd, "wildcard")

C13_Step ==
    \A k \in 1..Len(nodes) :
        /\ Len(nodes') >= Len(nodes)
        /\ nodes[k].paramNode # NilNode =>
               /\ nodes'[k].paramNode = nodes[k].paramNode
               /\ nodes'[k].paramName = nodes[k].paramName
        /\ nodes[k].catchAllNode # NilNode =>
               /\ nodes'[k].catchAllNode = nodes[k].catchAllNode
               /\ nodes'[k].catchAllName = nodes[k].catchAllName

\* C13: after any sequence of Add calls, successful or failing, every node has
\* at most one parameter child and at most one wildcard child (no child is
\* ever replaced), the name of each is the one given by the first call of Add
\* that created the child, and no later step changes the child or its name.
C13_TrieShape == [][C13_Step]_vars /\ [](C13_OneChild /\ C13_FirstName)

C13_Witness ==
    /\ Len(history) = 2
    /\ history[1].path = P_wx /\ history[1].err = NilErr
    /\ history[2].path = P_wy_a /\ history[2].err # NilErr
    /\ history[2].method = history[1].method
    /\ nodes[root[history[1].method]].catchAllName = <<"x">>
    /\ Len(nodes) = 2

(***************************************************************************)
(* Vocabulary of the properties of the application                         *)
(***************************************************************************)
\* the names of the functions a run has entered, in order
EnterNames(trace) ==
    LET sel == SelectSeq(trace, LAMBDA e : e[1] = "enter")
    IN  [i \in 1..Len(sel) |-> sel[i][2]]

\* the functions entered for the request of call r: by ServeHTTP's goroutine
\* and then by the goroutine Timeout started
EntersOf(r) == EnterNames(reqs[r].st.trace) \o EnterNames(gos[r].st.trace)

\* ServeHTTP has returned for r and nothing runs for its request any more
Over(r) == reqs[r].pc = "returned" /\ gos[r].state # "running"

\* the middlewares that were composed around dispatch
ComposedMws == IF composed = <<>> THEN <<>> ELSE composed[1]

\* what the router answers to the request of call r
LookupOf(r) == FindCall(nodes, root, reqs[r].method, reqs[r].path, <<>>)

\* every function of the list before position i calls next; Timeout calls it
\* in its goroutine
AllReachNext(mws, i) ==
    \A j \in 1..(i - 1) : CallsNext(mws[j].kind) \/ mws[j].kind = "timeout"

(***************************************************************************)
(* C14: the outcome of dispatch                                            *)
(***************************************************************************)
\* C14 as claimed: for each request, when Find fails the error handler is
\* invoked once with code 404 and no route handler runs; when Find succeeds
\* the stored handler is invoked exactly once and the error handler is invoked
\* once with 500 if and only if the handler chain returned an error; the error
\* handler is never invoked twice for one request.
C14_DispatchOutcome ==
    \A r \in Reqs :
        /\ Len(reqs[r].errs) <= 1
        /\ (Over(r) /\ Entries(reqs[r].st.trace \o gos[r].st.trace, "dispatch") = 1) =>
               IF LookupOf(r).result.err # NilErr
               THEN /\ reqs[r].errs = <<"404">>
                    /\ Entries(reqs[r].st.trace \o gos[r].st.trace, "h") = 0
               ELSE /\ Entries(reqs[r].st.trace \o gos[r].st.trace, "h") = 1
                    /\ reqs[r].errs = IF reqs[r].st.ret = "err" THEN <<"500">> ELSE <<>>

(***************************************************************************)
(* C15: the global middlewares are composed once                           *)
(***************************************************************************)
C15_Step == appHandler # NilHandler => appHandler' = appHandler

C15_Inv ==
    /\ Len(composed) <= 1
    /\ appHandler # NilHandler =>
           /\ Len(composed) = 1
           /\ appHandler = Compile(<<DispatchFn>>, composed[1])
    /\ \A r \in Reqs :
           reqs[r].pc \in {"handle", "select", "finish", "returned"} =>
               /\ SubSeq(reqs[r].st.chain, 1, Len(appHandler)) = appHandler
               /\ \A i \in 1..Len(appMws) :
                      i > Len(ComposedMws) =>
                          \A k \in 1..Len(EntersOf(r)) : EntersOf(r)[k] # appMws[i].name

\* C15: the App's middleware list is composed around dispatch exactly once,
\* however the calls of ServeHTTP interleave; every request runs through that
\* one composed handler, and a middleware added with Use after the composition
\* is never entered.
C15_ComposedOnce == [][C15_Step]_vars /\ []C15_Inv

C15_Witness ==
    /\ \A r \in Reqs : Over(r) /\ Len(reqs[r].st.trace) > 0
    /\ Len(composed) = 1
    /\ Len(appMws) > Len(composed[1])

(***************************************************************************)
(* C16: the global middlewares run before the lookup                       *)
(***************************************************************************)
\* the names of the composed handler's functions up to the lookup
ComposedNames ==
    [i \in 1..(Len(ComposedMws) + 1) |->
        IF i <= Len(ComposedMws) THEN ComposedMws[i].name ELSE DispatchFn.name]

\* how often the function called name was entered for the request of call r
EnteredTimes(r, name) ==
    Cardinality({ k \in 1..Len(EntersOf(r)) : EntersOf(r)[k] = name })

\* C16 as claimed: each global middleware present at composition time is
\* entered exactly once per request, in registration order with Recovery
\* outermost, before the route lookup, also when the lookup ends in NotFound.
C16_Original ==
    \A r \in Reqs :
        Over(r) =>
            /\ ComposedMws[1] = RecoveryMw
            /\ \A i \in 1..Len(ComposedMws) :
                   /\ Len(EntersOf(r)) >= i
                   /\ EntersOf(r)[i] = ComposedMws[i].name
                   /\ EnteredTimes(r, ComposedMws[i].name) = 1

\* the functions entered for a request follow the composed order at any time
C16_Order ==
    \A r \in Reqs :
        \A k \in 1..Len(EntersOf(r)) :
            k <= Len(ComposedNames) => EntersOf(r)[k] = ComposedNames[k]

\* once nothing runs for the request any more, a function of the composed
\* handler was entered once when all before it call next, and never otherwise
C16_Once ==
    \A r \in Reqs :
        Over(r) =>
            /\ ComposedMws[1] = RecoveryMw
            /\ \A i \in 1..Len(ComposedNames) :
                   EnteredTimes(r, ComposedNames[i]) =
                       IF AllReachNext(ComposedMws, i) THEN 1 ELSE 0

\* C16 (amended): each global middleware present at composition time, all of
\* whose predecessors call next, is entered exactly once per request, in
\* registration order with Recovery outermost and before the route lookup,
\* also when the lookup ends in NotFound; a middleware that answers without
\* calling next keeps the later ones and the lookup from running.
C16_GlobalsBeforeLookup == C16_Order /\ C16_Once

C16_Witness ==
    \E r \in Reqs :
        /\ Over(r)
        /\ ComposedMws = <<RecoveryMw, Fn("G", "pass")>>
        /\ LookupOf(r).result.err # NilErr
        /\ EntersOf(r) = <<"Recovery", "G", "dispatch">>
        /\ reqs[r].errs = <<"404">>

(***************************************************************************)
(* C17: the Context goes back to the pool on every way out                 *)
(***************************************************************************)
\* a call that returns has its Context put back by that step
C17_Step ==
    \A r \in Reqs :
        (reqs[r].pc # "returned" /\ reqs'[r].pc = "returned") =>
            /\ reqs[r].ctx \in Ctxs
            /\ reqs[r].ctx \notin pool
            /\ reqs[r].ctx \in pool'

\* a call that has returned has put back the Context it took, once; a call
\* that has not returned has put nothing back
C17_Inv ==
    \A r \in Reqs :
        reqs[r].puts = IF reqs[r].pc = "returned" THEN <<reqs[r].ctx>> ELSE <<>>

\* C17: every ServeHTTP call that takes a Context from the pool puts that same
\* Context back exactly once before it returns, on every exit path: successful
\* handler, handler error, NotFound, and a panic out of the handler chain.
C17_ScopedRelease == [][C17_Step]_vars /\ []C17_Inv

\* a panic went up through a function of the run
Unwound(trace) == \E k \in 1..Len(trace) : trace[k][1] = "unwind"

C17_Witness ==
    \E r, q \in Reqs :
        /\ r # q
        /\ reqs[r].pc = "returned" /\ reqs[q].pc = "returned"
        /\ Unwound(reqs[r].st.trace)
        /\ reqs[q].errs = <<"404">>
        /\ reqs[r].puts = <<reqs[r].ctx>> /\ reqs[q].puts = <<reqs[q].ctx>>

(***************************************************************************)
(* C18: a pooled Context belongs to one request at a time                  *)
(***************************************************************************)
\* C18 as claimed: a pooled Context is never shared between two in-flight
\* requests: once ServeHTTP has put a Context back, no code of the request
\* that held it, the handler running in the goroutine of Timeout included,
\* reads or writes that Context while another request has acquired it.
C18_NeverShared ==
    \A r \in Reqs :
        gos[r].state = "finished" => gos[r].heldBy \in {r, "none"}

(***************************************************************************)
(* C19: the sink is reset between requests                                 *)
(***************************************************************************)
\* a step that ends with no AddParam since the last Reset is a call of Reset
C19_Step ==
    sinkLog' = <<>> =>
        /\ Len(sink'.items) = 0
        /\ sink'.cap >= SinkCapacity
        /\ sink'.cap >= sink.cap
        /\ \A k \in ParamKeys : PathParam(sink'.items, k) = EmptyString

\* what the sink shows is what was recorded since the last Reset, and it fits
\* the capacity
C19_Visible ==
    /\ sink.items = [i \in 1..Len(sinkLog) |-> Param(sinkLog[i][1], sinkLog[i][2])]
    /\ Len(sink.items) <= sink.cap
    /\ \A k \in ParamKeys :
           (\A i \in 1..Len(sinkLog) : sinkLog[i][1] # k) =>
               PathParam(sink.items, k) = EmptyString

\* C19: Context.Reset leaves the Param Sink with length zero and a capacity
\* that is at least 10 and not smaller than before, so that after Reset
\* PathParam returns "" for every name: nothing recorded for an earlier
\* request is visible to the next one.
C19_SinkReset == [][C19_Step]_vars /\ []C19_Visible

C19_Witness ==
    /\ sinkLog = <<>>
    /\ sink.items = <<>>
    /\ sink.cap = 2 * SinkCapacity

(***************************************************************************)
(* C20: Find is read-only and safe to run side by side                     *)
(***************************************************************************)
\* what is left of the call c, run alone from where it stands
RestAlone(c) ==
    IF c.pc = "done" THEN [result |-> c.result, Params |-> c.Params]
    ELSE LET s == FindRun(nodes, c.n, c.searchPath, TRUE, c.Params)
         IN  [result |-> s.result, Params |-> s.Params]

\* a step of a caller of Find changes no node, no route and no root
C20_Step ==
    calls' # calls =>
        (nodes' = nodes /\ root' = root /\ globalMiddlewares' = globalMiddlewares)

\* whatever the other caller has done meanwhile, a call ends with the result
\* and the sink of the same call run alone on the same trie
C20_Inv ==
    \A f \in Finders :
        calls[f].pc # "idle" =>
            RestAlone(calls[f]) = FindCall(nodes, root, calls[f].method, calls[f].path, <<>>)

\* C20: Find never creates, removes or changes a trie node or a stored
\* route, and with registration finished every interleaving of calls of Find
\* that use their own sinks gives each call the result and the sink contents
\* of that call run alone.
C20_ConcurrentFind == [][C20_Step]_vars /\ []C20_Inv

C20_Witness ==
    /\ calls["f1"].pc = "done" /\ calls["f2"].pc = "loop"
    /\ calls["f1"].path = <<"/", "a", "a", "/", "a", "/">>
    /\ calls["f1"].Params = <<Param(<<"x">>, <<"a", "a">>), Param(<<"y">>, <<"a">>)>>
    /\ calls["f2"].path = <<"/", "a", "/", "a">>
    /\ calls["f2"].Params = <<Param(<<"x">>, <<"a">>)>>

(***************************************************************************)
(* C21: the classification of a segment at registration                    *)
(***************************************************************************)
\* the segment of the only registration, and the root it was added under
SegAdded == Tail(history[1].path)

SegRoot == nodes[root[history[1].method]]

\* the rules as the configuration's defaults state them
StartsWithColon(seg) == seg[1] = ":"

InBraces(seg) == Len(seg) >= 2 /\ seg[1] = "{" /\ seg[Len(seg)] = "}"

StartsWithStar(seg) == seg[1] = "*"

\* what Add made of the segment: the kinds of child the root got
MadeParam == SegRoot.paramNode # NilNode

MadeWildcard == SegRoot.catchAllNode # NilNode

MadeLiteral == DOMAIN SegRoot.children # {}

RECURSIVE PrefixChain(_)
PrefixChain(g) ==
    IF groups[g].parent = 0 THEN groups[g].given
    ELSE PrefixChain(groups[g].parent) \o groups[g].given

\* a request path that fits the template: every character of a parameter
\* segment becomes the letter "a"
Concrete(path) == [i \in 1..Len(path) |-> IF path[i] \in {":", "x"} THEN "a" ELSE path[i]]

\* the prefix of a Group is the concatenation of its ancestors' prefixes
C22_Nested == \A g \in 1..Len(groups) : groups[g].prefix = PrefixChain(g)

\* the route registered through a Group is in the router under its method at
\* prefix + path, and a request for that path gets its handler
C22_Registered ==
    history # <<>> =>
        LET h == history[1]
            full == PrefixChain(h.group) \o h.given
            f == FindCall(nodes, root, h.method, Concrete(full), <<>>)
        IN  /\ h.err = NilErr
            /\ f.result.err = NilErr
            /\ nodes[f.result.route].Handler = h.handler
            /\ nodes[f.result.route].Method = h.method
            /\ nodes[f.result.route].Path = full
            /\ \A m \in Methods \ {h.method} :
                   FindCall(nodes, root, m, Concrete(full), <<>>).result.err # NilErr

\* C22: a route registered through a Group with method M and path p is
\* registered in the router under M at the concatenation of the Group's prefix
\* and p, and a nested Group's prefix is the concatenation of its ancestors'
\* prefixes in order (app.Group("/a").Group("/b").GET("/c") is matched by
\* GET /a/b/c).
C22_GroupPrefix == C22_Nested /\ C22_Registered

C22_Witness ==
    /\ Len(groups) = 2
    /\ groups[1].given = <<"/", "a">> /\ groups[1].parent = 0
    /\ groups[2].given = <<"/", "b">> /\ groups[2].parent = 1
    /\ Len(history) = 1
    /\ history[1].group = 2 /\ history[1].given = <<"/", "c">>
    /\ history[1].method = "GET"
    /\ run.mode = "done"
    /\ run.trace = << <<"enter", "h1">>, <<"leave", "h1">> >>

(***************************************************************************)
(* C23: the middlewares of a Group                                         *)
(***************************************************************************)
\* the position of the first entry of the function called name in the trace,
\* 0 when it was never entered
FirstEntry(trace, name) ==
    IF \E k \in 1..Len(trace) : trace[k] = <<"enter", name>>
    THEN SetMin({ k \in 1..Len(trace) : trace[k] = <<"enter", name>> })
    ELSE 0

\* C23 as claimed: every middleware added with Group.Use is applied to all
\* routes registered in that Group: a request matched by a route registered
\* through the Group runs each of the middlewares the Group had at the
\* registration before the route's handler.
C23_GroupMiddlewares ==
    (run.mode = "done" /\ history # <<>>) =>
        LET h == history[1]
        IN  \A i \in 1..Len(h.groupMws) :
                /\ FirstEntry(run.trace, h.groupMws[i].name) > 0
                /\ FirstEntry(run.trace, h.groupMws[i].name)
                       < FirstEntry(run.trace, h.handler[1].name)

(***************************************************************************)
(* C24: a panic of the route's handler                                     *)
(***************************************************************************)
\* everything that happened for the request of call r, in ServeHTTP's
\* goroutine and in the one Timeout started
EventsOf(r) == reqs[r].st.trace \o gos[r].st.trace

\* the route's handler ran for the request of call r and panicked
HandlerPanicked(r) ==
    /\ history # <<>>
    /\ history[1].handler[1].kind = "panic"
    /\ \E k \in 1..Len(EventsOf(r)) :
           EventsOf(r)[k] = <<"enter", history[1].handler[1].name>>

\* C24 as claimed: for every request served by an App created with New, a
\* panic raised while the route's handler runs never escapes ServeHTTP; the
\* default Recovery middleware catches it, writes a 500 response and returns a
\* nil error, also when the handler is wrapped by other middlewares.
C24_PanicRecovered ==
    /\ ~crashed
    /\ \A r \in Reqs :
           (HandlerPanicked(r) /\ reqs[r].pc \in {"finish", "returned"}) =>
               /\ \E k \in 1..Len(reqs[r].st.trace) :
                      reqs[r].st.trace[k] = <<"recover", "Recovery">>
               /\ reqs[r].st.ret = "nil"

(***************************************************************************)
(* C25: the outcome of Timeout                                             *)
(***************************************************************************)
\* Timeout took the ctx.Done() case for call r while its goroutine was in
\* the given state: it wrote 503 and returned the deadline error
TimedOut(r, state) ==
    \E k \in 1..Len(reqs[r].st.trace) : reqs[r].st.trace[k] = <<"timeout", state>>

\* Timeout has returned to its caller in call r
TimeoutReturned(r) ==
    /\ reqs[r].pc \in {"finish", "returned"}
    /\ \E k \in 1..Len(reqs[r].st.trace) : reqs[r].st.trace[k] = <<"leave", "Timeout">>

\* C25 as claimed: when the handler has not returned at the deadline, Timeout
\* returns the context's deadline error without waiting for it and 503 is
\* written, under every interleaving of the handler's goroutine and the timer;
\* when the handler returns first, its error is returned and no 503 is written.
C25_TimeoutOutcome ==
    \A r \in Reqs :
        /\ TimedOut(r, "running") => reqs[r].st.ret = "err" \/ ~TimeoutReturned(r)
        /\ ~TimedOut(r, "finished")
        /\ (TimeoutReturned(r) /\ ~TimedOut(r, "running")) =>
               /\ gos[r].state = "finished"
               /\ reqs[r].st.ret = gos[r].st.ret

(***************************************************************************)
(* C26  Router-level Use applies only to later registrations               *)
(***************************************************************************)
\* the names of a list of middlewares
NamesOf(mws) == [i \in 1..Len(mws) |-> mws[i].name]

\* the middlewares given to Use before the k-th recorded call, in the order
\* of the calls
UsedBefore(k) ==
    LET uses == SelectSeq(SubSeq(history, 1, k - 1), LAMBDA e : e.op = "Use")
    IN  [i \in 1..Len(uses) |-> uses[i].middlewares[1].name]

\* the recorded call that registered the handler of the given name
AddOf(name) ==
    CHOOSE k \in 1..Len(history) :
        history[k].op = "Add" /\ history[k].handler[1].name = name

\* C26: when the stored handler of a route has run, the functions entered
\* are, in this order, the middlewares given to TrieRouter.Use before the
\* route was registered (in the order of the Use calls), the middlewares the
\* route was registered with, and the route's handler; a middleware given to
\* Use after the registration is not entered.
C26_UseAppliesToLaterAdds ==
    run.mode = "done" =>
        LET names == EnterNames(run.trace)
            h == names[Len(names)]
            k == AddOf(h)
        IN  names = UsedBefore(k) \o NamesOf(history[k].middlewares) \o <<h>>

\* a route registered with its own middleware between two Use calls has run:
\* the first Use wraps it, outside its own middleware, and the second does not
C26_Witness ==
    /\ run.mode = "done"
    /\ Len(history) = 3
    /\ history[1].op = "Use" /\ history[1].middlewares[1].name = "G1"
    /\ history[2].op = "Add" /\ history[2].middlewares # <<>>
    /\ history[3].op = "Use" /\ history[3].middlewares[1].name = "G2"
    /\ EnterNames(run.trace) = <<"G1", "A", "h1">>

(***************************************************************************)
(* C27  No backtracking                                                    *)
(***************************************************************************)
\* the route a matcher that tries every branch would find for the segments
\* segs below node cur: the literal child, the parameter child and the
\* wildcard child are alternatives
RECURSIVE AnyBranchMatches(_, _, _)
AnyBranchMatches(ns, cur, segs) ==
    IF segs = <<>>
    THEN \/ ns[cur].Handler # NilHandler
         \/ /\ ns[cur].catchAllNode # NilNode
            /\ ns[ns[cur].catchAllNode].Handler # NilHandler
    ELSE \/ /\ Head(segs) \in DOMAIN ns[cur].children
            /\ AnyBranchMatches(ns, ns[cur].children[Head(segs)], Tail(segs))
         \/ /\ ns[cur].paramNode # NilNode
            /\ AnyBranchMatches(ns, ns[cur].paramNode, Tail(segs))
         \/ /\ ns[cur].catchAllNode # NilNode
            /\ ns[ns[cur].catchAllNode].Handler # NilHandler

\* the one walk from node cur: per segment the literal child if there is one,
\* else the parameter child, else the wildcard child, which ends the walk
RECURSIVE OneWalk(_, _, _)
OneWalk(ns, cur, segs) ==
    IF segs = <<>>
    THEN IF ns[cur].Handler # NilHandler THEN cur
         ELSE IF ns[cur].catchAllNode # NilNode
                 /\ ns[ns[cur].catchAllNode].Handler # NilHandler
         THEN ns[cur].catchAllNode
         ELSE NilNode
    ELSE IF Head(segs) \in DOMAIN ns[cur].children
    THEN OneWalk(ns, ns[cur].children[Head(segs)], Tail(segs))
    ELSE IF ns[cur].paramNode # NilNode
    THEN OneWalk(ns, ns[cur].paramNode, Tail(segs))
    ELSE IF ns[cur].catchAllNode # NilNode
            /\ ns[ns[cur].catchAllNode].Handler # NilHandler
    THEN ns[cur].catchAllNode
    ELSE NilNode

\* an iteration that consumes a segment moves to one child of the current
\* node, chosen by the node alone: the literal child when there is one, else
\* the parameter child; otherwise Find returns
C27_Step ==
    ConsumesSegment =>
        LET seg == LeadSeg(searchPath)
        IN  IF seg \in DOMAIN nodes[n].children
            THEN pc' = "loop" /\ n' = nodes[n].children[seg]
            ELSE IF nodes[n].paramNode # NilNode
            THEN pc' = "loop" /\ n' = nodes[n].paramNode
            ELSE pc' = "done" /\ n' = n

\* what Find returns is what the one walk reaches
C27_Inv ==
    (pc = "done" /\ root[fMethod] # NilNode) =>
        result.route = OneWalk(nodes, root[fMethod], Segs(fPath))

\* the routes registered under method m are the two given ones
JustRegistered(m, p, q) ==
    /\ Registered(m, p)
    /\ Registered(m, q)
    /\ \A i \in 1..Len(history) : history[i].method = m => history[i].path \in {p, q}

C27_Example ==
    \A m \in Methods :
        (pc = "done" /\ fMethod = m) =>
            /\ (JustRegistered(m, P_AA, P_px_py)
                    /\ Segs(fPath) = <<<<"a">>, <<"a", "a">>>>) =>
                   result = NotFound(RouteNotFoundErr)
            /\ (JustRegistered(m, P_AA, P_wx) /\ Segs(fPath) = <<<<"a">>>>) =>
                   result = NotFound(RouteNotFoundErr)
            /\ (JustRegistered(m, P_px_py, P_wx) /\ Segs(fPath) = <<<<"a">>>>) =>
                   result = NotFound(RouteNotFoundErr)

\* C27: Find follows exactly one child per consumed segment and never goes
\* back on a choice: each consuming iteration takes the literal child when
\* the node has one for the segment and else the parameter child, and the
\* result of Find is the result of that one walk even when another branch
\* would match.  With just "a//a/" and "/:x/:y" registered a request for
\* a/aa is NotFound; with just "a//a/" and "/*x" a request for a is NotFound;
\* with just "/:x/:y" and "/*x" a request for a is NotFound.
C27_NoBacktracking == [][C27_Step]_vars /\ [](C27_Inv /\ C27_Example)

\* Find has returned NotFound for a/aa although the parameter branches
\* /:x/:y match it: the literal child a was taken and never abandoned
C27_Witness ==
    /\ pc = "done"
    /\ fMethod = "GET"
    /\ Registered("GET", P_AA)
    /\ Registered("GET", P_px_py)
    /\ Segs(fPath) = <<<<"a">>, <<"a", "a">>>>
    /\ result = NotFound(RouteNotFoundErr)
    /\ AnyBranchMatches(nodes, root["GET"], Segs(fPath))

(***************************************************************************)
(* C28  A failed Add changes nothing                                       *)
(***************************************************************************)
\* the call of Add that has just been made returned a conflict error
FailedAdd == IsAddStep /\ LastCall.err # NilErr

\* C28: a call of Add that returns a parameter-name or wildcard-name conflict
\* leaves the route table as it was: the nodes of every method's trie, with
\* their routes, parameter names and wildcard names, and the roots are the
\* same, no node is created, and every Find returns what it returned before.
C28_Step ==
    FailedAdd =>
        /\ LastCall.err[1] \in {"param name conflict", "wildcard name conflict"}
        /\ Len(nodes') = Len(nodes)
        /\ nodes' = nodes
        /\ root' = root
        /\ \A m \in Methods, p \in ReqPaths :
               Outcome(nodes', root', m, p) = Outcome(nodes, root, m, p)

C28_FailedAddChangesNothing == [][C28_Step]_vars

\* both kinds of conflict have been returned: "/a/{y}" after "/a/:x" and, in
\* another run, "/*y/a" after "/*x"
C28_Witness ==
    /\ Len(history) = 2
    /\ history[1].err = NilErr
    /\ history[2].err # NilErr
    /\ history[2].err[1] = "param name conflict"
    /\ Len(nodes) = 3

\* a wildcard-name conflict has been returned
C28_WitnessWildcard ==
    /\ Len(history) = 2
    /\ history[2].err # NilErr
    /\ history[2].err[1] = "wildcard name conflict"

(***************************************************************************)
(* C29  The Param Sink after a failed Find                                 *)
(***************************************************************************)
\* Find has returned NotFound
Failed == pc = "done" /\ result.err # NilErr

\* C29 as claimed: whenever Find returns NotFound the sink holds the same
\* entries as before the call (the sink is empty when Find is called)
C29_Original == Failed => Params = <<>>

\* the entries the walk of the stripped path sp from node cur leaves in the
\* sink: (paramName, segment) for each parameter child it descends through,
\* and the wildcard's entry where it meets a wildcard child
RECURSIVE WalkEntries(_, _, _)
WalkEntries(ns, cur, sp) ==
    IF sp = <<>>
    THEN IF ns[cur].Handler = NilHandler /\ ns[cur].catchAllNode # NilNode
         THEN <<Param(ns[cur].catchAllName, <<>>)>>
         ELSE <<>>
    ELSE LET seg == LeadSeg(sp)
             rest == AfterLeadSeg(sp)
         IN  IF seg = <<>> THEN WalkEntries(ns, cur, rest)
             ELSE IF seg \in DOMAIN ns[cur].children
             THEN WalkEntries(ns, ns[cur].children[seg], rest)
             ELSE IF ns[cur].paramNode # NilNode
             THEN <<Param(ns[cur].paramName, seg)>>
                      \o WalkEntries(ns, ns[cur].paramNode, rest)
             ELSE IF ns[cur].catchAllNode # NilNode
             THEN <<Param(ns[cur].catchAllName, IF rest = <<>> THEN seg ELSE sp)>>
             ELSE <<>>

\* the path of the request without one leading and one trailing "/"
Stripped(path) ==
    LET p1 == IF path # <<>> /\ Head(path) = "/" THEN Tail(path) ELSE path
    IN  IF p1 # <<>> /\ p1[Len(p1)] = "/" THEN SubSeq(p1, 1, Len(p1) - 1) ELSE p1

\* an entry some caller left in the sink before the call of Find
HeldBefore == <<Param(<<"k">>, <<"v">>)>>

\* no iteration of Find removes or changes an entry of the sink
C29_Step == pc = "loop" => IsPrefix(Params, Params')

\* after a failed Find the sink holds the entries of the parameter children
\* descended through and of the wildcard child met, and nothing else; after
\* an unknown method it holds nothing
C29_Left ==
    Failed =>
        IF root[fMethod] = NilNode THEN Params = <<>>
        ELSE Params = WalkEntries(nodes, root[fMethod], Stripped(fPath))

\* Find called with a sink that holds an entry: what the failed Find leaves
\* is that entry followed by what it leaves in an empty sink
C29_Kept ==
    Failed =>
        FindCall(nodes, root, fMethod, fPath, HeldBefore).Params = HeldBefore \o Params

\* C29 as amended: a failed Find only appends to the Param Sink.  Whenever
\* Find returns NotFound, the sink holds the entries it held before the call,
\* unchanged, followed by (paramName, segment) for each parameter child Find
\* descended through before it failed and, when it met a wildcard child
\* without a route, by the wildcard's entry; after an unknown method, or a
\* walk through literal children only, it holds the same entries as before.
C29_FailedFindOnlyAppends == [][C29_Step]_vars /\ [](C29_Left /\ C29_Kept)

\* with "/:x/:y" registered a request for /a has failed on the parameter
\* child's node, and the sink holds x = a
C29_Witness ==
    /\ Failed
    /\ Registered(fMethod, P_px_py)
    /\ Segs(fPath) = <<<<"a">>>>
    /\ Params = <<Param(<<"x">>, <<"a">>)>>

(***************************************************************************)
(* C30  Find terminates                                                    *)
(***************************************************************************)
\* the number of parts strings.Split(path, "/") gives
PartsOf(path) == Cardinality({ i \in 1..Len(path) : path[i] = "/" }) + 1

\* every iteration of the loop returns or strictly shortens searchPath
C30_Step == pc = "loop" => pc' = "done" \/ Len(searchPath') < Len(searchPath)

\* the loop has made at most parts + 1 iterations, and while Find has not
\* returned its next iteration can be made
C30_Inv ==
    /\ iters <= PartsOf(fPath) + 1
    /\ pc = "loop" => ENABLED FindLoop

\* C30: for every route table, method and path (the empty path, paths made
\* of slashes only and paths with doubled slashes among them) every
\* iteration of Find's loop either returns or strictly shortens the
\* remaining path, and Find returns after at most as many iterations as the
\* path has "/"-separated parts, plus one.
C30_FindTerminates == [][C30_Step]_vars /\ []C30_Inv

\* Find has returned for a//a after parts + 1 iterations: one for each of
\* the parts a, "" and a, and the one that finds the path empty
C30_Witness ==
    /\ pc = "done"
    /\ fPath = <<"a", "/", "/", "a">>
    /\ iters = PartsOf(fPath) + 1
    /\ Matched

====
